---- MODULE Spec2Model ----
\* A model of the midder event emitter (src/src/model.ts) and of its operation
\* chains (src/src/operation.ts).  The emitter's private fields are the
\* variables; every public method is an operator over a record of those fields
\* (so that a handler can call back into the emitter while an emission is in
\* progress) and an action that applies the operator to the current state.
EXTENDS Integers, Sequences, FiniteSets, TLC

VARIABLES
    listeners,          \* Map<event, Set<ListenerWithId>>: a function on the keys present
    wildcardListeners,  \* ListenerWithId[]
    operationChains,    \* Map<event, OperationChain>: the steps of each bound chain
    debounceTimers,     \* Map<event, timer handle>
    debounceDelays,     \* Map<event, ms>
    throttleTimers,     \* Map<event, time of the last accepted emission>
    throttleDelays,     \* Map<event, ms>
    idCounter,          \* the next listener id
    maxListeners,       \* the advisory cap
    now,                \* the clock (Date.now, and the timers' time)
    timers,             \* the pending setTimeout callbacks
    signals,            \* the AbortSignals: aborted flag and 'abort' listeners
    builders,           \* the OperationChainBuilders the callers hold: event and chain
    promises,           \* the promises returned by once, in call order
    calls,              \* the listener invocations of the last operation
    evals,              \* the chain evaluations of the last operation
    warned,             \* whether the last operation printed a max-listeners warning
    ret,                \* what the last operation returned
    raised,             \* whether the last operation threw to its caller
    lastOp              \* the last operation and its arguments

vars == <<listeners, wildcardListeners, operationChains, debounceTimers,
          debounceDelays, throttleTimers, throttleDelays, idCounter, maxListeners,
          now, timers, signals, builders, promises, calls, evals, warned, ret,
          raised, lastOp>>

\* ---------------------------------------------------------------- values

\* The JavaScript value undefined, among payloads that are naturals.
Undefined == -1

\* The wildcard event name.
Wildcard == "*"

\* A JavaScript Map is a function whose domain is the set of keys present.
EmptyMap == [k \in {} |-> 0]

MapSet(m, k, v) == [x \in (DOMAIN m) \cup {k} |-> IF x = k THEN v ELSE m[x]]

MapDelete(m, k) == [x \in (DOMAIN m) \ {k} |-> m[x]]

\* The sequence a map holds under a key (the listeners of an event in Set
\* order, the steps of its chain), empty when the key is absent.
Registered(m, event) == IF event \in DOMAIN m THEN m[event] ELSE <<>>

\* An optional value: the empty sequence, or the value alone.
None == <<>>

Some(v) == <<v>>

\* Handlers are function references; two registrations of one reference are
\* equal under ===.  kind says what the function does when called.
Plain(k) == [kind |-> "plain", ref |-> k]

Thrower == [kind |-> "throw", ref |-> 0]

OffSelf == [kind |-> "offSelf", ref |-> 0]

OffRef(k) == [kind |-> "offRef", ref |-> k]

OnceWrapper(p) == [kind |-> "once", ref |-> p]

\* Handlers that change the registry from inside their invocation:
\* off('*', Plain(k)), removeAllListeners(), on(<the target the handler is
\* subscribed under>, Plain(k)) and on('*', Plain(k)).
\* Listeners that append a step to the chain of StepTarget, or remove its
\* operations.
Grow == [kind |-> "grow", ref |-> 0]
Clear == [kind |-> "clear", ref |-> 0]

OffWild(k) == [kind |-> "offWild", ref |-> k]

RemoveAll == [kind |-> "removeAll", ref |-> 0]

OnSub(k) == [kind |-> "onSub", ref |-> k]

OnWild(k) == [kind |-> "onWild", ref |-> k]

NoHandler == [kind |-> "none", ref |-> 0]

\* The second argument of off: an id (a string in the code) or a handler.
ById(n) == [isId |-> TRUE, id |-> n, handler |-> NoHandler]

ByHandler(h) == [isId |-> FALSE, id |-> 0 - 1, handler |-> h]

\* A removal that stops at the first listener that matches key.
SeqFilterOutFirst(s, key) ==
    LET hits == {i \in 1..Len(s) :
                    IF key.isId THEN s[i].id = key.id
                    ELSE s[i].handler = key.handler}
    IN  IF hits = {} THEN s
        ELSE LET first == CHOOSE i \in hits : \A j \in hits : i <= j
             IN  SubSeq(s, 1, first - 1) \o SubSeq(s, first + 1, Len(s))

RECURSIVE SeqFilterOut(_, _)
\* Array.filter keeping the listeners that do not match key, in order.
SeqFilterOut(s, key) ==
    IF s = <<>> THEN <<>>
    ELSE LET l == Head(s)
             drop == IF key.isId THEN l.id = key.id ELSE l.handler = key.handler
         IN  IF drop THEN SeqFilterOut(Tail(s), key)
             ELSE <<l>> \o SeqFilterOut(Tail(s), key)

\* ---------------------------------------------------------------- state

\* The default of the constructor's maxListeners option.
DefaultMaxListeners == 10

\* No AbortSignal argument.
NoSignal == 0

\* A local variable that holds a reference to a collection of the emitter while
\* handlers run: live while the emitter still holds that same object (so that an
\* in-place add or push shows through it), and otherwise the items the object
\* had when the emitter replaced it.
NoHeld == [active |-> FALSE, event |-> "", live |-> FALSE, items |-> <<>>]

\* The emitter, its environment and the observations as one record; pHeld and
\* wHeld are the locals of the _emitInternal call in progress.
Cur ==
    [listeners |-> listeners, wildcardListeners |-> wildcardListeners,
     operationChains |-> operationChains, debounceTimers |-> debounceTimers,
     debounceDelays |-> debounceDelays, throttleTimers |-> throttleTimers,
     throttleDelays |-> throttleDelays, idCounter |-> idCounter,
     maxListeners |-> maxListeners, now |-> now, timers |-> timers,
     signals |-> signals, builders |-> builders, promises |-> promises,
     calls |-> <<>>, evals |-> <<>>, warned |-> FALSE,
     pHeld |-> NoHeld, wHeld |-> NoHeld]

\* The state after an operation that ended in st and returned r, or threw.
Install(st, r, threw, op) ==
    /\ listeners' = st.listeners
    /\ wildcardListeners' = st.wildcardListeners
    /\ operationChains' = st.operationChains
    /\ debounceTimers' = st.debounceTimers
    /\ debounceDelays' = st.debounceDelays
    /\ throttleTimers' = st.throttleTimers
    /\ throttleDelays' = st.throttleDelays
    /\ idCounter' = st.idCounter
    /\ maxListeners' = st.maxListeners
    /\ now' = st.now
    /\ timers' = st.timers
    /\ signals' = st.signals
    /\ builders' = st.builders
    /\ promises' = st.promises
    /\ calls' = st.calls
    /\ evals' = st.evals
    /\ warned' = st.warned
    /\ ret' = r
    /\ raised' = threw
    /\ lastOp' = op

\* What lastOp records: the operation, its event, payload, off key and signal,
\* and the listener id it returned (on) or was given (emitToListener).
Op(name, event, data, key, sig, id) ==
    [op |-> name, event |-> event, data |-> data, key |-> key, sig |-> sig,
     id |-> id]

\* No listener id.
NoId == 0 - 1

NoKey == ById(NoId)

\* The Set the local `listeners` of _emitInternal refers to.
HeldSet(st) ==
    IF st.pHeld.live THEN st.listeners[st.pHeld.event] ELSE st.pHeld.items

\* The array the wildcard loop of _emitInternal iterates.
HeldArray(st) ==
    IF st.wHeld.live THEN st.wildcardListeners ELSE st.wHeld.items

\* The emitter replaces the Set of `event`: a local that referred to it keeps
\* the old object.
StaleSet(st, event) ==
    IF st.pHeld.active /\ st.pHeld.live /\ st.pHeld.event = event
    THEN [st.pHeld EXCEPT !.live = FALSE, !.items = st.listeners[event]]
    ELSE st.pHeld

\* The emitter replaces the wildcard array.
StaleArray(st) ==
    IF st.wHeld.active /\ st.wHeld.live
    THEN [st.wHeld EXCEPT !.live = FALSE, !.items = st.wildcardListeners]
    ELSE st.wHeld

\* ---------------------------------------------------------------- registry

ListenerCount(st, event) ==
    IF event = Wildcard THEN Len(st.wildcardListeners)
    ELSE IF event \in DOMAIN st.listeners THEN Len(st.listeners[event]) ELSE 0

\* The 'abort' listener that on registers: () => this.off(event, id).
AbortOff(event, id) == [kind |-> "off", event |-> event, id |-> id, promise |-> 0]

\* The 'abort' listener that once registers: cleanup, then reject.
AbortOnce(p) == [kind |-> "once", event |-> "", id |-> 0 - 1, promise |-> p]

\* An on that takes the size of the targeted set as the id.
OnIdFromCount(st, event, h, sig) ==
    LET id == ListenerCount(st, event)
        l == [id |-> id, handler |-> h]
        st1 == [st EXCEPT !.idCounter = @ + 1]
        st2 == IF event = Wildcard
               THEN [st1 EXCEPT !.wildcardListeners = Append(@, l)]
               ELSE [st1 EXCEPT !.listeners =
                        MapSet(@, event, Append(Registered(@, event), l))]
    IN  IF sig # NoSignal /\ st.signals[sig].aborted
        THEN [st |-> st1, id |-> id]
        ELSE [st |-> IF sig # NoSignal
                     THEN [st2 EXCEPT !.signals[sig].handlers =
                                          Append(@, AbortOff(event, id))]
                     ELSE st2,
              id |-> id]

\* An on that does not look at signal.aborted.
OnIgnoresAborted(st, event, h, sig) ==
    LET id == st.idCounter
        l == [id |-> id, handler |-> h]
        st1 == [st EXCEPT !.idCounter = id + 1,
                          !.warned = @ \/ (st.maxListeners > 0
                                /\ ListenerCount(st, event) >= st.maxListeners)]
        st2 == IF event = Wildcard
               THEN [st1 EXCEPT !.wildcardListeners = Append(@, l)]
               ELSE [st1 EXCEPT !.listeners =
                        MapSet(@, event, Append(Registered(@, event), l))]
    IN  [st |-> IF sig # NoSignal
                THEN [st2 EXCEPT !.signals[sig].handlers =
                                     Append(@, AbortOff(event, id))]
                ELSE st2,
         id |-> id]

\* An on that registers nothing once the cap is reached.
OnRefusesAtCap(st, event, h, sig) ==
    LET id == st.idCounter
        l == [id |-> id, handler |-> h]
        full == st.maxListeners > 0
                  /\ (IF event = Wildcard THEN Len(st.wildcardListeners)
                      ELSE IF event \in DOMAIN st.listeners
                           THEN Len(st.listeners[event]) ELSE 0)
                        >= st.maxListeners
        st1 == [st EXCEPT !.idCounter = id + 1, !.warned = @ \/ full]
        st2 == IF event = Wildcard
               THEN [st1 EXCEPT !.wildcardListeners = Append(@, l)]
               ELSE [st1 EXCEPT !.listeners =
                        MapSet(@, event,
                               Append(IF event \in DOMAIN @ THEN @[event]
                                      ELSE <<>>, l))]
    IN  [st |-> IF full THEN st1 ELSE st2, id |-> id]

\* on(event, listener, signal): the new state and the id returned.
On(st, event, h, sig) ==
    LET id == st.idCounter
        st1 == [st EXCEPT !.idCounter = id + 1]
    IN  IF sig # NoSignal /\ st.signals[sig].aborted
        THEN [st |-> st1, id |-> id]
        ELSE LET warn == st.maxListeners > 0
                           /\ ListenerCount(st, event) >= st.maxListeners
                 l == [id |-> id, handler |-> h]
                 st2 == [st1 EXCEPT !.warned = @ \/ warn]
                 st3 == IF event = Wildcard
                        THEN [st2 EXCEPT !.wildcardListeners = Append(@, l)]
                        ELSE [st2 EXCEPT !.listeners =
                                 MapSet(@, event,
                                        Append(IF event \in DOMAIN @
                                               THEN @[event] ELSE <<>>, l))]
                 st4 == IF sig # NoSignal
                        THEN [st3 EXCEPT !.signals[sig].handlers =
                                             Append(@, AbortOff(event, id))]
                        ELSE st3
             IN  [st |-> st4, id |-> id]

\* off(event, idOrHandler): the new state and the boolean returned.
Off(st, event, key) ==
    IF event = Wildcard
    THEN LET after == SeqFilterOut(st.wildcardListeners, key)
         IN  [st |-> [st EXCEPT !.wildcardListeners = after,
                                !.wHeld = StaleArray(st)],
              ret |-> Len(after) # Len(st.wildcardListeners)]
    ELSE IF event \notin DOMAIN st.listeners
    THEN [st |-> st, ret |-> FALSE]
    ELSE LET filtered == SeqFilterOut(st.listeners[event], key)
         IN  IF Len(filtered) = Len(st.listeners[event])
             THEN [st |-> st, ret |-> FALSE]
             ELSE [st |-> [st EXCEPT !.listeners[event] = filtered,
                                     !.pHeld = StaleSet(st, event)],
                   ret |-> TRUE]

\* No event argument: removeAllListeners() and removeAllListeners('') take
\* the same branch.
NoEvent == ""

\* The pending callbacks that the debounceTimers map refers to.
DebounceHandles(st) == {st.debounceTimers[e] : e \in DOMAIN st.debounceTimers}

\* A removeAllListeners that drops the Sets and keeps the timing state.
RemoveAllListenersKeepsTiming(st, event) ==
    [st EXCEPT !.listeners = IF event # NoEvent THEN MapDelete(@, event) ELSE EmptyMap,
               !.wildcardListeners = IF event # NoEvent THEN @ ELSE <<>>]

\* A removeAllListeners that also clears the timers of the once calls.
RemoveAllListenersAndTimers(st, event) ==
    [st EXCEPT !.listeners = IF event # NoEvent THEN MapDelete(@, event) ELSE EmptyMap,
               !.wildcardListeners = IF event # NoEvent THEN @ ELSE <<>>,
               !.timers = {}, !.debounceTimers = EmptyMap,
               !.throttleTimers = EmptyMap]

\* removeAllListeners(event?): the Set of the event is dropped with its
\* pending debounce timer and throttle record, or everything is.
RemoveAllListeners(st, event) ==
    IF event # NoEvent
    THEN [st EXCEPT !.listeners = MapDelete(@, event),
                    !.pHeld = IF event \in DOMAIN st.listeners
                              THEN StaleSet(st, event) ELSE @,
                    !.timers = IF event \in DOMAIN st.debounceTimers
                               THEN @ \ {st.debounceTimers[event]} ELSE @,
                    !.debounceTimers = MapDelete(@, event),
                    !.throttleTimers = MapDelete(@, event)]
    ELSE [st EXCEPT !.listeners = EmptyMap,
                    !.pHeld = IF st.pHeld.active /\ st.pHeld.live
                              THEN StaleSet(st, st.pHeld.event) ELSE @,
                    !.wildcardListeners = <<>>,
                    !.wHeld = StaleArray(st),
                    !.timers = @ \ DebounceHandles(st),
                    !.debounceTimers = EmptyMap,
                    !.throttleTimers = EmptyMap]

\* A removeAllOperations that unbinds the chain and keeps the timing.
RemoveAllOperationsChainOnly(st, event) ==
    [st EXCEPT !.operationChains =
                  IF event # NoEvent THEN MapDelete(@, event) ELSE EmptyMap]

\* removeAllOperations(event?): the chain, the delays, the pending debounce
\* timer and the throttle record of the event are dropped, or of all events.
RemoveAllOperations(st, event) ==
    IF event # NoEvent
    THEN [st EXCEPT !.operationChains = MapDelete(@, event),
                    !.debounceDelays = MapDelete(@, event),
                    !.throttleDelays = MapDelete(@, event),
                    !.timers = IF event \in DOMAIN st.debounceTimers
                               THEN @ \ {st.debounceTimers[event]} ELSE @,
                    !.debounceTimers = MapDelete(@, event),
                    !.throttleTimers = MapDelete(@, event)]
    ELSE [st EXCEPT !.operationChains = EmptyMap,
                    !.debounceDelays = EmptyMap,
                    !.throttleDelays = EmptyMap,
                    !.timers = @ \ DebounceHandles(st),
                    !.debounceTimers = EmptyMap,
                    !.throttleTimers = EmptyMap]

\* removeDebounce(event): the delay and the pending timer of the event are
\* dropped.
RemoveDebounce(st, event) ==
    [st EXCEPT !.debounceDelays = MapDelete(@, event),
               !.timers = IF event \in DOMAIN st.debounceTimers
                          THEN @ \ {st.debounceTimers[event]} ELSE @,
               !.debounceTimers = MapDelete(@, event)]

\* A removeThrottle that drops the delay and keeps the last-fire record.
RemoveThrottleKeepsRecord(st, event) ==
    [st EXCEPT !.throttleDelays = MapDelete(@, event)]

\* removeThrottle(event): the delay and the last-fire record of the event are
\* dropped.
RemoveThrottle(st, event) ==
    [st EXCEPT !.throttleDelays = MapDelete(@, event),
               !.throttleTimers = MapDelete(@, event)]

\* An eventNames that lists every key of the map.
EventNamesAllKeys(st) == DOMAIN st.listeners

\* eventNames(): the keys of the map whose Set is not empty, as a set.
EventNames(st) == {event \in DOMAIN st.listeners : Len(st.listeners[event]) > 0}

\* A setMaxListeners without the check of its argument.
SetMaxListenersUnchecked(st, n) ==
    [st |-> [st EXCEPT !.maxListeners = n], ret |-> TRUE, raised |-> FALSE]

\* setMaxListeners(n): raises for a negative n, and otherwise sets the cap
\* and returns the emitter (ret is TRUE for `this`).
SetMaxListeners(st, n) ==
    IF n < 0 THEN [st |-> st, ret |-> FALSE, raised |-> TRUE]
    ELSE [st |-> [st EXCEPT !.maxListeners = n], ret |-> TRUE, raised |-> FALSE]

\* getMaxListeners()
GetMaxListeners(st) == st.maxListeners

\* Whether new EventEmitter({maxListeners: opt}) raises; Undefined is the
\* option left out.
ConstructorThrows(opt) == opt # Undefined /\ opt # 0 /\ opt < 0

\* The cap after construction: config.maxListeners || 10.
ConstructedCap(opt) ==
    IF opt # Undefined /\ opt # 0 THEN opt ELSE DefaultMaxListeners

\* ---------------------------------------------------------------- once

\* clearTimeout: the callback is no longer pending.
ClearTimeout(st, handle) == [st EXCEPT !.timers = @ \ {handle}]

\* A cleanup that clears the timer and leaves the listener subscribed.
CleanupKeepsListener(st, p) ==
    IF st.promises[p].timeoutId # None
    THEN ClearTimeout(st, st.promises[p].timeoutId[1]) ELSE st

\* A cleanup that unsubscribes the listener and leaves the timer pending.
CleanupKeepsTimer(st, p) == Off(st, st.promises[p].event, ById(st.promises[p].id)).st

\* cleanup() of the once call p: clear its timer, unsubscribe its listener.
Cleanup(st, p) ==
    LET pr == st.promises[p]
        st1 == IF pr.timeoutId # None THEN ClearTimeout(st, pr.timeoutId[1]) ELSE st
    IN  Off(st1, pr.event, ById(pr.id)).st

NoError == [name |-> "", ms |-> 0]

\* new Error(`Timeout after ${timeout}ms`)
TimeoutError(ms) == [name |-> "Timeout", ms |-> ms]

\* new Error('Operation aborted')
AbortError == [name |-> "Aborted", ms |-> 0]

\* resolve or reject of a promise: only the first call has an effect.
Settle(st, p, state, value, error) ==
    IF st.promises[p].state = "pending"
    THEN [st EXCEPT !.promises[p].state = state,
                    !.promises[p].value = value,
                    !.promises[p].error = error]
    ELSE st

\* ---------------------------------------------------------------- handlers

\* A listener invocation as the log keeps it: the listener, whether it got the
\* wildcard envelope {type, data} (type is "" for a bare payload), the payload.
Call(l, env, type, data) == [id |-> l.id, env |-> env, type |-> type, data |-> data]

Step(type, handler) == [type |-> type, handler |-> handler]

\* A builder call transform/filter/tap/log: the step is appended to the chain
\* bound to the event, or to the builder's own chain when none is bound, and
\* the result is bound.
BuilderAppend(st, event, own, step) ==
    LET currentChain == IF event \in DOMAIN st.operationChains
                        THEN st.operationChains[event] ELSE own
    IN  [st EXCEPT !.operationChains = MapSet(@, event, Append(currentChain, step))]

\* The event whose chain the handlers "grow" and "clear" work on.
StepTarget == "a"

\* What a handler does to the emitter when it is a closure over it: "grow" calls
\* emitter.operation(StepTarget).transform(inc), "clear" calls
\* emitter.removeAllOperations(StepTarget); the others leave it alone.
StepEffect(st, handler) ==
    CASE handler = "grow" ->
            BuilderAppend(st, StepTarget, <<>>, Step("transform", "inc"))
      [] handler = "clear" -> RemoveAllOperations(st, StepTarget)
      [] OTHER -> st

\* Whether a call of handler h raises.
Throws(h) == h.kind = "throw"

\* The body of the handler of listener l, subscribed under sub (an event
\* name or '*'), run against the emitter in state st1.
HandlerBody(st1, l, sub, entry) ==
    LET h == l.handler
        target == IF h.kind \in {"offWild", "onWild"} THEN Wildcard ELSE sub
        key == IF h.kind = "offSelf" THEN ById(l.id) ELSE ByHandler(Plain(h.ref))
    IN  CASE h.kind \in {"offSelf", "offRef", "offWild"} -> Off(st1, target, key).st
          [] h.kind = "removeAll" -> RemoveAllListeners(st1, NoEvent)
          [] h.kind \in {"onSub", "onWild"} ->
                On(st1, target, Plain(h.ref), NoSignal).st
          [] h.kind \in {"grow", "clear"} -> StepEffect(st1, h.kind)
          [] h.kind = "once" ->
                Settle(Cleanup(st1, h.ref), h.ref, "resolved", entry.data, NoError)
          [] OTHER -> st1

\* handler(arg) for listener l: the call is logged and the body of the handler
\* runs against the emitter.
RunHandler(st, l, sub, entry) ==
    HandlerBody([st EXCEPT !.calls = Append(@, entry)], l, sub, entry)

\* ---------------------------------------------------------------- chains

\* The filter predicate "lt" keeps payloads below this limit.
FilterLimit == 5

\* The number that undefined + 1 is; no comparison with it is true.
NaN == 0 - 2

\* What a step's handler does with the running value x; "void" is a handler
\* without return statement: whether it raises, the
\* value a transform returns, the boolean a filter returns.
StepHandler(handler, x) ==
    CASE handler = "inc" ->
            [threw |-> FALSE, value |-> IF x \in {Undefined, NaN} THEN NaN ELSE x + 1,
             keep |-> TRUE]
      [] handler = "lt" ->
            [threw |-> FALSE, value |-> x,
             keep |-> x \notin {Undefined, NaN} /\ x < FilterLimit]
      [] handler = "void" -> [threw |-> FALSE, value |-> Undefined, keep |-> TRUE]
      [] handler \in {"tap", "grow", "clear"} ->
            [threw |-> FALSE, value |-> x, keep |-> TRUE]
      [] OTHER -> [threw |-> TRUE, value |-> x, keep |-> TRUE]

\* One step's invocation as the log keeps it: its position, and the running
\* value it was called with.
StepRun(i, step, x) ==
    [pos |-> i, type |-> step.type, handler |-> step.handler, value |-> x]

\* A loop body whose filter case does not return: a filter that returns false
\* is ignored.
StepOutcomeFilterIgnored(step, out, result) ==
    IF out.threw
    THEN IF step.type = "transform"
         THEN [kind |-> "return", value |-> Undefined]
         ELSE [kind |-> "next", value |-> result]
    ELSE IF step.type = "transform" THEN [kind |-> "next", value |-> out.value]
         ELSE [kind |-> "next", value |-> result]

\* A loop body whose transform case does not assign the running value.
StepOutcomeTransformDropped(step, out, result) ==
    IF out.threw
    THEN IF step.type = "transform"
         THEN [kind |-> "return", value |-> Undefined]
         ELSE [kind |-> "next", value |-> result]
    ELSE IF step.type = "filter" /\ ~out.keep
         THEN [kind |-> "return", value |-> Undefined]
         ELSE [kind |-> "next", value |-> result]

\* A loop body with no try block: what a handler raises leaves execute.
StepOutcomeUncaught(step, out, result) ==
    IF out.threw THEN [kind |-> "raise", value |-> Undefined]
    ELSE CASE step.type = "transform" -> [kind |-> "next", value |-> out.value]
           [] step.type = "filter" ->
                 IF ~out.keep THEN [kind |-> "return", value |-> Undefined]
                 ELSE [kind |-> "next", value |-> result]
           [] OTHER -> [kind |-> "next", value |-> result]

\* A catch block that returns undefined for every kind of step.
StepOutcomeAnyThrowSuppresses(step, out, result) ==
    IF out.threw THEN [kind |-> "return", value |-> Undefined]
    ELSE CASE step.type = "transform" -> [kind |-> "next", value |-> out.value]
           [] step.type = "filter" ->
                 IF ~out.keep THEN [kind |-> "return", value |-> Undefined]
                 ELSE [kind |-> "next", value |-> result]
           [] OTHER -> [kind |-> "next", value |-> result]

\* The body of the loop of execute for one step whose handler gave out while
\* the running value was result: go on to the next step with a running value,
\* return a value, or raise to the caller of execute.
StepOutcome(step, out, result) ==
    IF out.threw
    THEN IF step.type = "transform"
         THEN [kind |-> "return", value |-> Undefined]
         ELSE [kind |-> "next", value |-> result]
    ELSE CASE step.type = "transform" -> [kind |-> "next", value |-> out.value]
           [] step.type = "filter" ->
                 IF ~out.keep THEN [kind |-> "return", value |-> Undefined]
                 ELSE [kind |-> "next", value |-> result]
           [] OTHER -> [kind |-> "next", value |-> result]

RECURSIVE ExecuteFrom(_, _, _, _)
\* What follows the handler of step i, which left the emitter in state st1 and
\* whose outcome is o: the next step, or the end of execute.
AfterStep(st1, steps, i, o) ==
    CASE o.kind = "next" -> ExecuteFrom(st1, steps, i + 1, o.value)
      [] o.kind = "return" -> [st |-> st1, result |-> o.value, raised |-> FALSE]
      [] OTHER -> [st |-> st1, result |-> Undefined, raised |-> TRUE]

\* The handler of a step is called with the running value: the call is logged
\* and the handler does to the emitter what it does.
CallStep(st, i, step, result) ==
    StepEffect([st EXCEPT !.evals[Len(st.evals)].log =
                              Append(@, StepRun(i, step, result))],
               step.handler)

\* The loop of execute from step i on, with running value result.
ExecuteFrom(st, steps, i, result) ==
    IF i > Len(steps) THEN [st |-> st, result |-> result, raised |-> FALSE]
    ELSE AfterStep(CallStep(st, i, steps[i], result), steps, i,
                   StepOutcome(steps[i], StepHandler(steps[i].handler, result),
                               result))

\* The value execute returns is logged as the result of the evaluation.
Executed(out) ==
    [st |-> [out.st EXCEPT !.evals[Len(out.st.evals)].result = out.result],
     result |-> out.result, raised |-> out.raised]

\* chain.execute(data): the evaluation is logged in evals with its result.
Execute(st, steps, data) ==
    Executed(ExecuteFrom([st EXCEPT !.evals = Append(@, [log |-> <<>>,
                                                         result |-> data])],
                         steps, 1, data))

\* chain ? chain.execute(data) : data, for an optional chain.
Process(st, chain, data) ==
    IF chain = None THEN [st |-> st, result |-> data, raised |-> FALSE]
    ELSE Execute(st, chain[1], data)

\* this.operationChains.get(event)
GetOperation(st, event) ==
    IF event \in DOMAIN st.operationChains
    THEN Some(st.operationChains[event]) ELSE None

\* ---------------------------------------------------------------- emit

\* The items of a sequence in reverse order.
Reverse(s) == [i \in 1..Len(s) |-> s[Len(s) + 1 - i]]

\* A copy of the listeners that does not keep the order of the Set.
SnapshotReversed(set) == Reverse(set)

\* Array.from(listeners): the copy the per-name loop iterates.
Snapshot(set) == set

\* A handler call outside any try block: what the handler raises reaches the
\* loop.
InvokeUnisolated(st, l, sub, entry) ==
    [st |-> RunHandler(st, l, sub, entry), raised |-> Throws(l.handler)]

\* try { handler(processedData) } catch { console.error }: the handler runs and
\* nothing is raised to the loop, whether or not the handler raised.
InvokeIsolated(st, l, sub, entry) ==
    [st |-> RunHandler(st, l, sub, entry), raised |-> FALSE]

RECURSIVE DeliverAllLive(_, _, _, _)
\* A loop over the live Set instead of a copy: a listener that an earlier
\* handler removed is skipped.
DeliverAllLive(st, list, event, data) ==
    IF list = <<>> THEN [st |-> st, raised |-> FALSE]
    ELSE LET l == Head(list)
             there == event \in DOMAIN st.listeners
                        /\ \E i \in 1..Len(st.listeners[event]) :
                              st.listeners[event][i] = l
             r == InvokeIsolated(st, l, event, Call(l, FALSE, "", data))
         IN  IF ~there THEN DeliverAllLive(st, Tail(list), event, data)
             ELSE DeliverAllLive(r.st, Tail(list), event, data)

RECURSIVE DeliverAll(_, _, _, _)
\* The per-name loop: each handler of the copy is called with the processed
\* payload.
DeliverAll(st, list, event, data) ==
    IF list = <<>> THEN [st |-> st, raised |-> FALSE]
    ELSE LET r == InvokeIsolated(st, Head(list), event,
                                 Call(Head(list), FALSE, "", data))
         IN  IF r.raised THEN r
             ELSE DeliverAll(r.st, Tail(list), event, data)

\* A wildcard call that passes the payload without the envelope.
WildcardCallBare(l, event, wildcardData) == Call(l, FALSE, "", wildcardData)

\* handler({ type: event, data: wildcardData })
WildcardCall(l, event, wildcardData) == Call(l, TRUE, event, wildcardData)

\* What the wildcard loop does after a handler call: called = true follows the
\* call inside the try block, so a handler that raises skips it.
CalledAfter(called, h) == called \/ ~Throws(h)

\* A wildcard pass that reads the chain bound to the event again.
HeldChainReread(st, chain, event) == GetOperation(st, event)

\* const chain = this.operationChains.get(event): the value read when
\* _emitInternal started, whatever is bound by now.
HeldChain(st, chain, event) == chain

RECURSIVE WildcardLoop(_, _, _, _, _, _)
\* The loop over this.wildcardListeners from index i on: inside one try block
\* the chain is executed again and, unless that evaluation is undefined, the
\* listener gets the envelope; whatever is raised there is caught.
WildcardLoop(st, i, event, chain, data, called) ==
    IF i > Len(HeldArray(st)) THEN [st |-> st, ret |-> called, raised |-> FALSE]
    ELSE LET l == HeldArray(st)[i]
             ex == Process(st, HeldChain(st, chain, event), data)
         IN  IF ex.raised \/ ex.result = Undefined
             THEN WildcardLoop(ex.st, i + 1, event, chain, data, called)
             ELSE WildcardLoop(
                      RunHandler(ex.st, l, Wildcard,
                                 WildcardCall(l, event, ex.result)),
                      i + 1, event, chain, data, CalledAfter(called, l.handler))

\* A test of the Set alone, not of its size.
HasPerNameNoSize(st) == st.pHeld.active

\* if (listeners && listeners.size > 0)
HasPerName(st) == st.pHeld.active /\ Len(HeldSet(st)) > 0

\* A per-name part that hands the payload to the listeners as given, without
\* executing the chain.
PerNamePassUnprocessed(st, event, chain, data) ==
    IF HasPerName(st)
    THEN LET d == DeliverAll(st, Snapshot(HeldSet(st)), event, data)
         IN  [st |-> d.st, called |-> TRUE, suppressed |-> FALSE,
              raised |-> d.raised]
    ELSE [st |-> st, called |-> FALSE, suppressed |-> FALSE, raised |-> FALSE]

\* A per-name part that hands an undefined result to the listeners like any
\* other value.
PerNamePassDeliversUndefined(st, event, chain, data) ==
    IF HasPerName(st)
    THEN LET ex == Process(st, chain, data)
         IN  IF ex.raised
             THEN [st |-> ex.st, called |-> FALSE, suppressed |-> FALSE,
                   raised |-> TRUE]
             ELSE LET d == DeliverAll(ex.st, Snapshot(HeldSet(ex.st)), event,
                                      ex.result)
                  IN  [st |-> d.st, called |-> TRUE, suppressed |-> FALSE,
                       raised |-> d.raised]
    ELSE [st |-> st, called |-> FALSE, suppressed |-> FALSE, raised |-> FALSE]

\* The per-name part of _emitInternal: the chain is executed once and every
\* listener of the copy gets the result, unless it is undefined.
PerNamePass(st, event, chain, data) ==
    IF HasPerName(st)
    THEN LET ex == Process(st, chain, data)
         IN  IF ex.raised
             THEN [st |-> ex.st, called |-> FALSE, suppressed |-> FALSE,
                   raised |-> TRUE]
             ELSE IF ex.result = Undefined
             THEN [st |-> ex.st, called |-> FALSE, suppressed |-> TRUE,
                   raised |-> FALSE]
             ELSE LET d == DeliverAll(ex.st, Snapshot(HeldSet(ex.st)), event,
                                      ex.result)
                  IN  [st |-> d.st, called |-> TRUE, suppressed |-> FALSE,
                       raised |-> d.raised]
    ELSE [st |-> st, called |-> FALSE, suppressed |-> FALSE, raised |-> FALSE]

\* The locals of _emitInternal go out of scope.
Release(st) == [st EXCEPT !.pHeld = NoHeld, !.wHeld = NoHeld]

\* _emitInternal(event, data): the new state and the boolean returned.
EmitInternal(st0, event, data) ==
    LET hasSet == event \in DOMAIN st0.listeners
        chain == GetOperation(st0, event)
    IN  IF ~hasSet /\ Len(st0.wildcardListeners) = 0
        THEN [st |-> st0, ret |-> FALSE, raised |-> FALSE]
        ELSE LET st == [st0 EXCEPT !.pHeld = [active |-> hasSet, event |-> event,
                                              live |-> hasSet, items |-> <<>>]]
                 per == PerNamePass(st, event, chain, data)
             IN  IF per.raised
                 THEN [st |-> Release(per.st), ret |-> FALSE, raised |-> TRUE]
                 ELSE IF per.suppressed
                 THEN [st |-> Release(per.st), ret |-> FALSE, raised |-> FALSE]
                 ELSE LET st2 == [per.st EXCEPT !.wHeld = [active |-> TRUE,
                                      event |-> Wildcard, live |-> TRUE,
                                      items |-> <<>>]]
                          out == WildcardLoop(st2, 1, event, chain, data,
                                              per.called)
                      IN  [st |-> Release(out.st), ret |-> out.ret,
                           raised |-> FALSE]

\* The truthiness of a number in a condition.
Truthy(n) == n # 0

\* Map.get(key) of a map of numbers, undefined read as 0 (both are falsy).
GetNum(m, k) == IF k \in DOMAIN m THEN m[k] ELSE 0

\* The setTimeout callback of a debounced emit.
DebounceTimer(event, data, due) ==
    [kind |-> "debounce", event |-> event, data |-> data, due |-> due, owner |-> 0]

\* The setTimeout callback of once call p.
OnceTimer(event, p, due) ==
    [kind |-> "once", event |-> event, data |-> Undefined, due |-> due, owner |-> p]

\* An emit whose debounce gate schedules the new timer and leaves the
\* pending one.
EmitKeepsPendingTimer(st, event, data) ==
    LET debounceDelay == GetNum(st.debounceDelays, event)
        newTimer == DebounceTimer(event, data, st.now + debounceDelay)
    IN  IF Truthy(debounceDelay)
        THEN [st |-> [st EXCEPT !.timers = @ \cup {newTimer},
                                !.debounceTimers = MapSet(@, event, newTimer)],
              ret |-> TRUE, raised |-> FALSE]
        ELSE EmitInternal(st, event, data)

\* An emit whose debounce gate comes before its throttle gate.
EmitDebounceFirst(st, event, data) ==
    LET debounceDelay == GetNum(st.debounceDelays, event)
        throttleDelay == GetNum(st.throttleDelays, event)
        lastThrottleTime == GetNum(st.throttleTimers, event)
        st0 == IF event \in DOMAIN st.debounceTimers
               THEN ClearTimeout(st, st.debounceTimers[event]) ELSE st
        newTimer == DebounceTimer(event, data, st.now + debounceDelay)
    IN  IF Truthy(debounceDelay)
        THEN [st |-> [st0 EXCEPT !.timers = @ \cup {newTimer},
                                 !.debounceTimers = MapSet(@, event, newTimer)],
              ret |-> TRUE, raised |-> FALSE]
        ELSE IF Truthy(throttleDelay) /\ Truthy(lastThrottleTime)
                  /\ st.now - lastThrottleTime < throttleDelay
        THEN [st |-> st, ret |-> FALSE, raised |-> FALSE]
        ELSE EmitInternal(IF Truthy(throttleDelay)
                          THEN [st EXCEPT !.throttleTimers = MapSet(@, event, st.now)]
                          ELSE st, event, data)

\* emit(event, data): the throttle gate, the debounce gate, then delivery.
Emit(st, event, data) ==
    LET debounceDelay == GetNum(st.debounceDelays, event)
        throttleDelay == GetNum(st.throttleDelays, event)
        lastThrottleTime == GetNum(st.throttleTimers, event)
        dropped == Truthy(throttleDelay) /\ Truthy(lastThrottleTime)
                     /\ st.now - lastThrottleTime < throttleDelay
        st1 == IF Truthy(throttleDelay)
               THEN [st EXCEPT !.throttleTimers = MapSet(@, event, st.now)]
               ELSE st
    IN  IF dropped THEN [st |-> st, ret |-> FALSE, raised |-> FALSE]
        ELSE IF Truthy(debounceDelay)
        THEN LET st2 == IF event \in DOMAIN st1.debounceTimers
                        THEN ClearTimeout(st1, st1.debounceTimers[event])
                        ELSE st1
                 newTimer == DebounceTimer(event, data, st.now + debounceDelay)
             IN  [st |-> [st2 EXCEPT !.timers = @ \cup {newTimer},
                                     !.debounceTimers = MapSet(@, event, newTimer)],
                  ret |-> TRUE, raised |-> FALSE]
        ELSE EmitInternal(st1, event, data)

\* A targeted emission that evaluates the chain before it looks for the
\* listener.
EmitToListenerChainFirst(st, event, data, listenerId) ==
    LET ex == Process(st, GetOperation(st, event), data)
        found == SelectSeq(Registered(st.listeners, event),
                           LAMBDA l : l.id = listenerId)
    IN  IF found = <<>> \/ ex.result = Undefined
        THEN [st |-> ex.st, ret |-> FALSE, raised |-> FALSE]
        ELSE [st |-> RunHandler(ex.st, found[1], event,
                                Call(found[1], FALSE, "", ex.result)),
              ret |-> ~Throws(found[1].handler), raised |-> FALSE]

\* A targeted emission that goes through emit: gated, and fanned out.
EmitToListenerViaEmit(st, event, data, listenerId) == Emit(st, event, data)

\* emitToListener(event, data, listenerId): the new state and the boolean.
EmitToListener(st, event, data, listenerId) ==
    IF event \notin DOMAIN st.listeners
    THEN [st |-> st, ret |-> FALSE, raised |-> FALSE]
    ELSE LET found == SelectSeq(st.listeners[event], LAMBDA l : l.id = listenerId)
         IN  IF found = <<>> THEN [st |-> st, ret |-> FALSE, raised |-> FALSE]
             ELSE LET ex == Process(st, GetOperation(st, event), data)
                      l == found[1]
                  IN  IF ex.raised
                      THEN [st |-> ex.st, ret |-> FALSE, raised |-> TRUE]
                      ELSE IF ex.result = Undefined
                      THEN [st |-> ex.st, ret |-> FALSE, raised |-> FALSE]
                      ELSE [st |-> RunHandler(ex.st, l, event,
                                              Call(l, FALSE, "", ex.result)),
                            ret |-> ~Throws(l.handler), raised |-> FALSE]

\* ---------------------------------------------------------------- builder

\* What an OperationChainBuilder holds besides the emitter.
Builder(event, chain) == [event |-> event, chain |-> chain]

\* emitter.operation(event): a builder on the chain bound to the event, or on
\* a new chain without steps; the caller holds it.
Operation(st, event) ==
    LET existingChain == IF event \in DOMAIN st.operationChains
                         THEN st.operationChains[event] ELSE <<>>
    IN  [st EXCEPT !.builders = Append(@, Builder(event, existingChain))]

\* builders[b].transform/filter/tap/log(handler): the step is appended and
\* bound, and a builder on the new chain is returned, which the caller holds
\* in place of the one called (fluent) or drops.
BuilderCall(st, b, step, fluent) ==
    LET h == st.builders[b]
        st1 == BuilderAppend(st, h.event, h.chain, step)
        newChain == st1.operationChains[h.event]
    IN  IF fluent
        THEN [st1 EXCEPT !.builders[b] = Builder(h.event, newChain)]
        ELSE st1

\* builder.debounce(delayMs): the delay is recorded; a pending timer stays.
SetDebounce(st, event, delayMs) ==
    [st EXCEPT !.debounceDelays = MapSet(@, event, delayMs)]

\* builder.throttle(delayMs): the delay is recorded.
SetThrottle(st, event, delayMs) ==
    [st EXCEPT !.throttleDelays = MapSet(@, event, delayMs)]

\* ---------------------------------------------------------------- once, abort, timers

\* once(event, {timeout, signal}): the promise is the next entry of promises.
Once(st, event, timeout, sig) ==
    LET p == Len(st.promises) + 1
        pending == [event |-> event, id |-> 0 - 1, state |-> "pending",
                    value |-> Undefined, error |-> NoError, timeout |-> timeout,
                    timeoutId |-> None, signal |-> sig]
        reg == On([st EXCEPT !.promises = Append(@, pending)], event,
                  OnceWrapper(p), NoSignal)
        st1 == [reg.st EXCEPT !.promises[p].id = reg.id]
        timer == OnceTimer(event, p, st.now + timeout)
        st2 == IF Truthy(timeout) /\ timeout > 0
               THEN [st1 EXCEPT !.timers = @ \cup {timer},
                                !.promises[p].timeoutId = Some(timer)]
               ELSE st1
    IN  IF sig # NoSignal
        THEN [st2 EXCEPT !.signals[sig].handlers = Append(@, AbortOnce(p))]
        ELSE st2

RECURSIVE RunAbortHandlers(_, _)
\* The 'abort' listeners of a signal run in the order they were added.
RunAbortHandlers(st, handlers) ==
    IF handlers = <<>> THEN st
    ELSE LET h == Head(handlers)
             st1 == IF h.kind = "off" THEN Off(st, h.event, ById(h.id)).st
                    ELSE Settle(Cleanup(st, h.promise), h.promise, "rejected",
                                Undefined, AbortError)
         IN  RunAbortHandlers(st1, Tail(handlers))

\* An abort that empties every set in which the signal had a listener.
AbortDropsSets(st, sig) ==
    LET hs == st.signals[sig].handlers
        hit(e) == \E i \in 1..Len(hs) : hs[i].kind = "off" /\ hs[i].event = e
    IN  IF st.signals[sig].aborted THEN st
        ELSE [st EXCEPT !.signals[sig].aborted = TRUE,
                        !.listeners = [e \in DOMAIN @ |->
                                          IF hit(e) THEN <<>> ELSE @[e]],
                        !.wildcardListeners = IF hit(Wildcard) THEN <<>> ELSE @]

\* controller.abort(): the signal becomes aborted and its listeners run, once.
Abort(st, sig) ==
    IF st.signals[sig].aborted THEN st
    ELSE RunAbortHandlers([st EXCEPT !.signals[sig].aborted = TRUE],
                          st.signals[sig].handlers)

\* A debounce callback that delivers and leaves its entry in debounceTimers.
FireTimerKeepsEntry(st, t) ==
    LET st1 == [st EXCEPT !.timers = @ \ {t}]
    IN  IF t.kind = "debounce"
        THEN EmitInternal(st1, t.event, t.data).st
        ELSE Settle(Cleanup(st1, t.owner), t.owner, "rejected", Undefined,
                    TimeoutError(st1.promises[t.owner].timeout))

\* A pending setTimeout callback runs: the deferred delivery of a debounced
\* emit, or the timeout of a once call.
FireTimer(st, t) ==
    LET st1 == [st EXCEPT !.timers = @ \ {t}]
    IN  IF t.kind = "debounce"
        THEN EmitInternal([st1 EXCEPT !.debounceTimers = MapDelete(@, t.event)],
                          t.event, t.data).st
        ELSE Settle(Cleanup(st1, t.owner), t.owner, "rejected", Undefined,
                    TimeoutError(st1.promises[t.owner].timeout))

\* ---------------------------------------------------------------- actions

\* The AbortControllers of the environment.
SignalIds == {1}

\* The state after new EventEmitter(), at time 0, with no signal aborted.
Init ==
    /\ listeners = EmptyMap
    /\ wildcardListeners = <<>>
    /\ operationChains = EmptyMap
    /\ debounceTimers = EmptyMap
    /\ debounceDelays = EmptyMap
    /\ throttleTimers = EmptyMap
    /\ throttleDelays = EmptyMap
    /\ idCounter = 0
    /\ maxListeners = DefaultMaxListeners
    /\ now = 0
    /\ timers = {}
    /\ signals = [s \in SignalIds |-> [aborted |-> FALSE, handlers |-> <<>>]]
    /\ builders = <<>>
    /\ promises = <<>>
    /\ calls = <<>>
    /\ evals = <<>>
    /\ warned = FALSE
    /\ ret = FALSE
    /\ raised = FALSE
    /\ lastOp = Op("new", "", Undefined, NoKey, NoSignal, NoId)

\* At most this many ids are handed out in the registry specification.
MaxIds == 3

\* emitter.on(event, h, signal)
OnAct(event, h, sig) ==
    LET out == On(Cur, event, h, sig)
    IN  Install(out.st, TRUE, FALSE, Op("on", event, Undefined, ByHandler(h), sig, out.id))

\* emitter.off(event, key)
OffAct(event, key) ==
    LET out == Off(Cur, event, key)
    IN  Install(out.st, out.ret, FALSE, Op("off", event, Undefined, key, NoSignal, NoId))

\* emitter.emit(event, data)
EmitAct(event, data) ==
    LET out == Emit(Cur, event, data)
    IN  Install(out.st, out.ret, out.raised, Op("emit", event, data, NoKey, NoSignal, NoId))

\* emitter.emitToListener(event, data, id)
EmitToListenerAct(event, data, id) ==
    LET out == EmitToListener(Cur, event, data, id)
    IN  Install(out.st, out.ret, out.raised, Op("emitToListener", event, data, NoKey, NoSignal, id))

\* emitter.operation(event).transform/filter/tap(handler), on a fresh builder
AppendStepAct(event, step) ==
    Install(BuilderAppend(Cur, event, <<>>, step), TRUE, FALSE,
            Op("append", event, Undefined, NoKey, NoSignal, NoId))

\* emitter.operation(event), kept by the caller
OperationAct(event) ==
    Install(Operation(Cur, event), TRUE, FALSE,
            Op("operation", event, Undefined, NoKey, NoSignal, NoId))

\* A call of transform/filter/tap on builder b that the caller holds; lastOp
\* keeps the step as key and the builder as id.
BuilderCallAct(b, step, fluent) ==
    Install(BuilderCall(Cur, b, step, fluent), TRUE, FALSE,
            Op("builder", builders[b].event, Undefined, step, NoSignal, b))

\* emitter.operation(event).debounce(delayMs)
DebounceAct(event, delayMs) ==
    Install(SetDebounce(Cur, event, delayMs), TRUE, FALSE,
            Op("debounce", event, delayMs, NoKey, NoSignal, NoId))

\* emitter.operation(event).throttle(delayMs)
ThrottleAct(event, delayMs) ==
    Install(SetThrottle(Cur, event, delayMs), TRUE, FALSE,
            Op("throttle", event, delayMs, NoKey, NoSignal, NoId))

\* emitter.removeAllListeners(event?)
RemoveAllListenersAct(event) ==
    Install(RemoveAllListeners(Cur, event), TRUE, FALSE,
            Op("removeAllListeners", event, Undefined, NoKey, NoSignal, NoId))

\* emitter.removeAllOperations(event?)
RemoveAllOperationsAct(event) ==
    Install(RemoveAllOperations(Cur, event), TRUE, FALSE,
            Op("removeAllOperations", event, Undefined, NoKey, NoSignal, NoId))

\* emitter.removeDebounce(event)
RemoveDebounceAct(event) ==
    Install(RemoveDebounce(Cur, event), TRUE, FALSE,
            Op("removeDebounce", event, Undefined, NoKey, NoSignal, NoId))

\* emitter.removeThrottle(event)
RemoveThrottleAct(event) ==
    Install(RemoveThrottle(Cur, event), TRUE, FALSE,
            Op("removeThrottle", event, Undefined, NoKey, NoSignal, NoId))

\* emitter.setMaxListeners(n)
SetMaxListenersAct(n) ==
    LET out == SetMaxListeners(Cur, n)
    IN  Install(out.st, out.ret, out.raised,
                Op("setMaxListeners", "", n, NoKey, NoSignal, NoId))

\* emitter.once(event, {timeout, signal})
OnceAct(event, timeout, sig) ==
    Install(Once(Cur, event, timeout, sig), TRUE, FALSE,
            Op("once", event, timeout, NoKey, sig, NoId))

\* controller.abort()
AbortAct(sig) ==
    Install(Abort(Cur, sig), TRUE, FALSE, Op("abort", "", Undefined, NoKey, sig, NoId))

\* A timer that is due runs its callback.
FireAct(t) ==
    /\ t.due <= now
    /\ Install(FireTimer(Cur, t), TRUE, FALSE,
               Op("fire", t.event, t.data, NoKey, NoSignal, NoId))

\* Time passes by one millisecond; a timer that is due runs first.
Tick ==
    /\ \A t \in timers : t.due > now
    /\ Install([Cur EXCEPT !.now = @ + 1], TRUE, FALSE,
               Op("tick", "", Undefined, NoKey, NoSignal, NoId))

\* ---------------------------------------------------------------- registry specification

\* The events, handlers and off keys of the registry specification.
Events == {"a", "b"}

Targets == Events \cup {Wildcard}

RegistryHandlers == {Plain(1), Thrower}

RegistryKeys == {ById(n) : n \in 0..(MaxIds - 1)} \cup {ByHandler(Plain(1))}

\* on, off and emit on two events and the wildcard, with no chain and no timing.
Next ==
    \/ \E e \in Targets, h \in RegistryHandlers :
          idCounter < MaxIds /\ OnAct(e, h, NoSignal)
    \/ \E e \in Targets, k \in RegistryKeys : OffAct(e, k)
    \/ \E e \in Events : EmitAct(e, 1)

Spec == Init /\ [][Next]_vars

\* ---------------------------------------------------------------- re-entrant specification

\* Handlers that unsubscribe while an emission is in progress: themselves (by
\* id) or the listeners of another handler (by reference).
ReentrantHandlers == {Plain(1), OffSelf, OffRef(1)}

ReentrantTargets == {"a", Wildcard}

NextReentrant ==
    \/ \E e \in ReentrantTargets, h \in ReentrantHandlers :
          idCounter < MaxIds /\ OnAct(e, h, NoSignal)
    \/ \E e \in ReentrantTargets, k \in RegistryKeys : OffAct(e, k)
    \/ EmitAct("a", 1)

SpecReentrant == Init /\ [][NextReentrant]_vars

\* ---------------------------------------------------------------- chain specification

\* At most this many steps are attached to a chain.
MaxSteps == 2

\* At most this many ids are handed out in the chain specification.
ChainMaxIds == 2

\* The payloads emitted: below the filter limit, one below it, and at it.
Payloads == {3, 4, 5}

\* The steps attached: a transform that adds one, a filter that keeps
\* payloads below FilterLimit, a tap.
ChainSteps == {Step("transform", "inc"), Step("filter", "lt"), Step("tap", "tap")}

\* One event with a chain, per-name and wildcard listeners that return.
NextChain ==
    \/ \E e \in ReentrantTargets :
          idCounter < ChainMaxIds /\ OnAct(e, Plain(1), NoSignal)
    \/ \E e \in ReentrantTargets, n \in 0..(ChainMaxIds - 1) : OffAct(e, ById(n))
    \/ \E s \in ChainSteps :
          /\ Len(Registered(operationChains, "a")) < MaxSteps
          /\ AppendStepAct("a", s)
    \/ \E d \in Payloads : EmitAct("a", d)
    \/ \E d \in Payloads, n \in 0..(ChainMaxIds - 1) : EmitToListenerAct("a", d, n)

SpecChain == Init /\ [][NextChain]_vars

\* ---------------------------------------------------------------- fan-out specification

\* The steps of the fan-out specification.
FanoutSteps == {Step("transform", "inc"), Step("filter", "lt")}

\* Per-name and wildcard listeners, some of which raise, subscribed in any
\* order on one event with a chain.
NextFanout ==
    \/ \E e \in ReentrantTargets, h \in RegistryHandlers :
          idCounter < MaxIds /\ OnAct(e, h, NoSignal)
    \/ \E s \in FanoutSteps :
          /\ Len(Registered(operationChains, "a")) < MaxSteps
          /\ AppendStepAct("a", s)
    \/ \E d \in Payloads : EmitAct("a", d)

SpecFanout == Init /\ [][NextFanout]_vars

\* ---------------------------------------------------------------- failing-step specification

\* The steps attached: a transform that adds one, and a transform, a filter
\* and a tap that raise.
FailingSteps ==
    {Step("transform", "inc"), Step("transform", "throwT"),
     Step("filter", "throwF"), Step("tap", "throwTap")}

\* One event whose chain has steps that raise, per-name and wildcard listeners.
NextFailing ==
    \/ \E e \in ReentrantTargets :
          idCounter < ChainMaxIds /\ OnAct(e, Plain(1), NoSignal)
    \/ \E s \in FailingSteps :
          /\ Len(Registered(operationChains, "a")) < MaxSteps
          /\ AppendStepAct("a", s)
    \/ \E d \in Payloads : EmitAct("a", d)
    \/ \E d \in Payloads, n \in 0..(ChainMaxIds - 1) : EmitToListenerAct("a", d, n)

SpecFailing == Init /\ [][NextFailing]_vars

\* ---------------------------------------------------------------- once specification

\* At most this many once calls are made.
MaxOnce == 2

\* The clock stops at this time.
MaxTime == 2

\* once calls and listeners together take at most this many ids.
OnceMaxIds == 2

\* The timeout options of the once calls: none, and one millisecond.
OnceTimeouts == {0, 1}

\* The payloads emitted while once calls are pending.
OncePayloads == {3, 4}

\* once calls with and without timeout and signal, racing with emissions,
\* the abort of the signal and the passing of time.
NextOnce ==
    \/ \E ms \in OnceTimeouts, sig \in SignalIds \cup {NoSignal} :
          /\ idCounter < OnceMaxIds /\ Len(promises) < MaxOnce
          /\ OnceAct("a", ms, sig)
    \/ idCounter < OnceMaxIds /\ OnAct("a", Plain(1), NoSignal)
    \/ \E d \in OncePayloads : EmitAct("a", d)
    \/ \E sig \in SignalIds : AbortAct(sig)
    \/ \E t \in timers : FireAct(t)
    \/ now < MaxTime /\ Tick

SpecOnce == Init /\ [][NextOnce]_vars

\* ---------------------------------------------------------------- once specification with timers that fire

\* The clock runs while a timer is pending, and up to MaxTime otherwise.
TickToTimers ==
    /\ now < MaxTime \/ timers # {}
    /\ Tick

\* A timer that is due runs its callback.
FireDue == \E t \in timers : FireAct(t)

\* once calls without signal racing with emissions, removeAllListeners and
\* the passing of time.
NextOnceTimers ==
    \/ \E ms \in OnceTimeouts :
          /\ idCounter < OnceMaxIds /\ Len(promises) < MaxOnce
          /\ OnceAct("a", ms, NoSignal)
    \/ EmitAct("a", 3)
    \/ \E e \in {NoEvent, "a"} : RemoveAllListenersAct(e)
    \/ FireDue
    \/ TickToTimers

\* setTimeout callbacks run when they are due, and time does not stop while
\* one is pending.
SpecOnceTimers ==
    Init /\ [][NextOnceTimers]_vars /\ WF_vars(FireDue) /\ WF_vars(TickToTimers)

\* ---------------------------------------------------------------- timing specification

\* At most this many ids are handed out while delays are configured.
TimingMaxIds == 2

\* The delays given to debounce and throttle: 0 switches the gate off.
TimingDelays == {0, 1}

\* The payloads emitted on the timed event.
TimingPayloads == {3}

\* The steps bound to the timed event.
TimingSteps == {Step("filter", "lt"), Step("tap", "tap")}

\* Listeners come and go on one event, wildcard listeners come, and a
\* one-step chain, a debounce delay and a throttle delay are configured for
\* the event while time passes.
NextTiming ==
    \/ \E e \in ReentrantTargets :
          idCounter < TimingMaxIds /\ OnAct(e, Plain(1), NoSignal)
    \/ \E n \in 0..(TimingMaxIds - 1) : OffAct("a", ById(n))
    \/ \E step \in TimingSteps :
          operationChains = EmptyMap /\ AppendStepAct("a", step)
    \/ \E ms \in TimingDelays : DebounceAct("a", ms)
    \/ \E ms \in TimingDelays : ThrottleAct("a", ms)
    \/ \E d \in TimingPayloads : EmitAct("a", d)
    \/ \E t \in timers : FireAct(t)
    \/ now < MaxTime /\ Tick

SpecTiming == Init /\ [][NextTiming]_vars

\* ---------------------------------------------------------------- targeted emission with timing

\* The delays configured for targeted emission.
TargetedDelays == {1}

\* emitToListener racing with emit on an event with per-name and wildcard
\* listeners, a debounce delay and a throttle delay, while time passes.
NextTargetedTiming ==
    \/ \E e \in ReentrantTargets :
          idCounter < MaxIds /\ OnAct(e, Plain(1), NoSignal)
    \/ \E ms \in TargetedDelays : DebounceAct("a", ms)
    \/ \E ms \in TargetedDelays : ThrottleAct("a", ms)
    \/ EmitAct("a", 3)
    \/ \E n \in 0..(MaxIds - 1) : EmitToListenerAct("a", 4, n)
    \/ \E t \in timers : FireAct(t)
    \/ now < MaxTime /\ Tick

SpecTargetedTiming == Init /\ [][NextTargetedTiming]_vars

\* ---------------------------------------------------------------- undefined payload specification

\* Steps that may leave the running value undefined, and steps that see it.
VoidSteps ==
    {Step("transform", "void"), Step("transform", "inc"), Step("filter", "lt"),
     Step("tap", "tap")}

\* The payloads emitted: the one of a void-payload event, one the filter
\* keeps, one it rejects.
VoidPayloads == {Undefined, 3, 5}

\* One event with or without a chain, per-name and wildcard listeners, and
\* emissions to all listeners and to one.
NextVoid ==
    \/ \E e \in ReentrantTargets :
          idCounter < ChainMaxIds /\ OnAct(e, Plain(1), NoSignal)
    \/ \E s \in VoidSteps :
          /\ Len(Registered(operationChains, "a")) < MaxSteps
          /\ AppendStepAct("a", s)
    \/ \E d \in VoidPayloads : EmitAct("a", d)
    \/ \E d \in VoidPayloads, n \in 0..(ChainMaxIds - 1) :
          EmitToListenerAct("a", d, n)

SpecVoid == Init /\ [][NextVoid]_vars

\* ---------------------------------------------------------------- targeted emission specification

\* The steps bound to the event of the targeted emissions.
TargetedSteps == {Step("transform", "inc"), Step("filter", "lt")}

\* The payloads of the targeted emissions: one the filter keeps after the
\* transform, one it rejects.
TargetedPayloads == {3, 5}

\* emitToListener with ids of listeners that return or raise, of removed
\* listeners, of wildcard listeners and of listeners of another event, on an
\* event with a one-step chain.
NextTargeted ==
    \/ \E e \in Targets, h \in RegistryHandlers :
          idCounter < MaxIds /\ OnAct(e, h, NoSignal)
    \/ \E n \in 0..(MaxIds - 1) : OffAct("a", ById(n))
    \/ \E s \in TargetedSteps :
          operationChains = EmptyMap /\ AppendStepAct("a", s)
    \/ \E d \in TargetedPayloads, n \in 0..(MaxIds - 1) :
          EmitToListenerAct("a", d, n)

SpecTargeted == Init /\ [][NextTargeted]_vars

\* ---------------------------------------------------------------- debounce specification

\* The debounce delay of the event, in milliseconds.
DebounceDelay == 2

\* Bursts of emits up to time MaxTime on an event with a debounce delay and no
\* throttle, with listeners that come and go, while time passes.
NextDebounce ==
    \/ \E e \in ReentrantTargets :
          idCounter < TimingMaxIds /\ OnAct(e, Plain(1), NoSignal)
    \/ \E n \in 0..(TimingMaxIds - 1) : OffAct("a", ById(n))
    \/ "a" \notin DOMAIN debounceDelays /\ DebounceAct("a", DebounceDelay)
    \/ \E d \in OncePayloads : now <= MaxTime /\ EmitAct("a", d)
    \/ FireDue
    \/ TickToTimers

SpecDebounce == Init /\ [][NextDebounce]_vars

\* ---------------------------------------------------------------- deferred delivery specification

\* Emits up to time MaxTime on an event with a debounce delay, with listeners
\* that come and go and a transform that is attached at any time, before or
\* after an emit, while time passes.
NextDeferred ==
    \/ \E e \in ReentrantTargets :
          idCounter < TimingMaxIds /\ OnAct(e, Plain(1), NoSignal)
    \/ \E n \in 0..(TimingMaxIds - 1) : OffAct("a", ById(n))
    \/ "a" \notin DOMAIN debounceDelays /\ DebounceAct("a", DebounceDelay)
    \/ "a" \notin DOMAIN operationChains
          /\ AppendStepAct("a", Step("transform", "inc"))
    \/ now <= MaxTime /\ EmitAct("a", 3)
    \/ FireDue
    \/ TickToTimers

SpecDeferred == Init /\ [][NextDeferred]_vars

\* ---------------------------------------------------------------- throttle specification

\* The throttle delay of the event, in milliseconds.
ThrottleDelay == 2

\* Emits at any time from 0 on, on an event with a throttle delay and no
\* debounce, with listeners that come and go.
NextThrottle ==
    \/ \E e \in ReentrantTargets :
          idCounter < TimingMaxIds /\ OnAct(e, Plain(1), NoSignal)
    \/ \E n \in 0..(TimingMaxIds - 1) : OffAct("a", ById(n))
    \/ "a" \notin DOMAIN throttleDelays /\ ThrottleAct("a", ThrottleDelay)
    \/ \E d \in OncePayloads : EmitAct("a", d)
    \/ now < MaxTime /\ Tick

SpecThrottle == Init /\ [][NextThrottle]_vars

\* ---------------------------------------------------------------- throttle and debounce specification

\* Emits up to time MaxTime on an event that may have a tap, a throttle
\* delay, a debounce delay or all of them, with per-name and wildcard
\* listeners, while time passes.
NextGates ==
    \/ \E e \in ReentrantTargets :
          idCounter < TimingMaxIds /\ OnAct(e, Plain(1), NoSignal)
    \/ operationChains = EmptyMap /\ AppendStepAct("a", Step("tap", "tap"))
    \/ "a" \notin DOMAIN throttleDelays /\ ThrottleAct("a", ThrottleDelay)
    \/ "a" \notin DOMAIN debounceDelays /\ DebounceAct("a", DebounceDelay)
    \/ \E d \in OncePayloads : now <= MaxTime /\ EmitAct("a", d)
    \/ FireDue
    \/ TickToTimers

SpecGates == Init /\ [][NextGates]_vars

\* ---------------------------------------------------------------- signal specification

\* on with and without an AbortSignal, before and after the signal aborts,
\* with off, emit and emitToListener on every id handed out.
NextSignal ==
    \/ \E e \in ReentrantTargets, sig \in SignalIds \cup {NoSignal} :
          idCounter < MaxIds /\ OnAct(e, Plain(1), sig)
    \/ \E sig \in SignalIds : AbortAct(sig)
    \/ \E e \in ReentrantTargets, n \in 0..(MaxIds - 1) : OffAct(e, ById(n))
    \/ EmitAct("a", 3)
    \/ \E n \in 0..(MaxIds - 1) : EmitToListenerAct("a", 3, n)

SpecSignal == Init /\ [][NextSignal]_vars

\* ---------------------------------------------------------------- abort specification

\* Listeners of one handler registered with and without an AbortSignal on an
\* event and on the wildcard, removed by off, by removeAllListeners and by the
\* abort of the signal, with emits in between.
NextAbort ==
    \/ \E e \in ReentrantTargets, sig \in SignalIds \cup {NoSignal} :
          idCounter < MaxIds /\ OnAct(e, Plain(1), sig)
    \/ \E sig \in SignalIds : AbortAct(sig)
    \/ \E n \in 0..(MaxIds - 1) : OffAct("a", ById(n))
    \/ \E e \in {NoEvent, "a"} : RemoveAllListenersAct(e)
    \/ EmitAct("a", 3)

SpecAbort == Init /\ [][NextAbort]_vars

\* ---------------------------------------------------------------- id specification

\* Ids handed out by on (per-name, wildcard, with a live or an aborted
\* signal) and by once, between off, removeAllListeners, removeAllOperations
\* and the abort of the signal.
NextIds ==
    \/ \E e \in ReentrantTargets, sig \in SignalIds \cup {NoSignal} :
          idCounter < MaxIds /\ OnAct(e, Plain(1), sig)
    \/ idCounter < MaxIds /\ Len(promises) < MaxOnce /\ OnceAct("a", 0, NoSignal)
    \/ \E sig \in SignalIds : AbortAct(sig)
    \/ \E n \in 0..(MaxIds - 1) : OffAct("a", ById(n))
    \/ \E e \in {NoEvent, "a"} : RemoveAllListenersAct(e)
    \/ RemoveAllOperationsAct(NoEvent)

SpecIds == Init /\ [][NextIds]_vars

\* ---------------------------------------------------------------- cap specification

\* A negative number of listeners.
Negative == 0 - 2

\* The maxListeners option of the constructor: left out, negative, 0, and
\* caps that the subscriptions reach.
CapOptions == {Undefined, Negative, 0, 1, 2}

\* The arguments of setMaxListeners.
CapArguments == {Negative, 0, 1, 2}

\* The state after new EventEmitter({maxListeners: opt}); when the
\* constructor raised there is no emitter to call.
InitCap ==
    \E opt \in CapOptions :
       /\ listeners = EmptyMap
       /\ wildcardListeners = <<>>
       /\ operationChains = EmptyMap
       /\ debounceTimers = EmptyMap
       /\ debounceDelays = EmptyMap
       /\ throttleTimers = EmptyMap
       /\ throttleDelays = EmptyMap
       /\ idCounter = 0
       /\ maxListeners = ConstructedCap(opt)
       /\ now = 0
       /\ timers = {}
       /\ signals = [s \in SignalIds |-> [aborted |-> FALSE, handlers |-> <<>>]]
       /\ builders = <<>>
       /\ promises = <<>>
       /\ calls = <<>>
       /\ evals = <<>>
       /\ warned = FALSE
       /\ ret = FALSE
       /\ raised = ConstructorThrows(opt)
       /\ lastOp = Op("new", "", opt, NoKey, NoSignal, NoId)

\* The constructor returned an emitter.
Constructed == ~(lastOp.op = "new" /\ raised)

\* Subscriptions up to and beyond the cap, with the cap changed by
\* setMaxListeners, on an emitter that may have a chain and a debounce delay.
NextCap ==
    /\ Constructed
    /\ \/ \E e \in ReentrantTargets :
             idCounter < MaxIds /\ OnAct(e, Plain(1), NoSignal)
       \/ \E n \in CapArguments : SetMaxListenersAct(n)
       \/ operationChains = EmptyMap /\ AppendStepAct("a", Step("tap", "tap"))
       \/ debounceDelays = EmptyMap /\ DebounceAct("a", DebounceDelay)

SpecCap == InitCap /\ [][NextCap]_vars

\* Subscriptions with and without a signal, up to and beyond a cap that the
\* constructor or setMaxListeners set, with the signal aborted at any time.
NextOverCap ==
    /\ Constructed
    /\ \/ \E e \in ReentrantTargets, sig \in SignalIds \cup {NoSignal} :
             idCounter < MaxIds /\ OnAct(e, Plain(1), sig)
       \/ \E n \in CapArguments : SetMaxListenersAct(n)
       \/ \E sig \in SignalIds : AbortAct(sig)

SpecOverCap == InitCap /\ [][NextOverCap]_vars

\* ---------------------------------------------------------------- clearing specification

\* The arguments of removeAllListeners and removeAllOperations: none, an
\* event, the wildcard name.
ClearArguments == {NoEvent} \cup Targets

\* Event "a" with a transform and a debounce delay, event "b" with a
\* throttle delay, per-name and wildcard listeners, and emits
\* before time MaxTime, cleared by removeAllListeners and removeAllOperations while
\* time passes.
NextClear ==
    \/ \E e \in Targets :
          idCounter < TimingMaxIds /\ OnAct(e, Plain(1), NoSignal)
    \/ "a" \notin DOMAIN operationChains
          /\ AppendStepAct("a", Step("transform", "inc"))
    \/ "a" \notin DOMAIN debounceDelays /\ DebounceAct("a", DebounceDelay)
    \/ "b" \notin DOMAIN throttleDelays /\ ThrottleAct("b", ThrottleDelay)
    \/ \E e \in Events : now < MaxTime /\ EmitAct(e, 3)
    \/ \E e \in ClearArguments : RemoveAllListenersAct(e)
    \/ \E e \in ClearArguments : RemoveAllOperationsAct(e)
    \/ FireDue
    \/ TickToTimers

SpecClear == Init /\ [][NextClear]_vars

\* ---------------------------------------------------------------- names specification

\* on with and without an AbortSignal on two events and the wildcard, with
\* off, abort and removeAllListeners.
NextNames ==
    \/ \E e \in Targets, sig \in SignalIds \cup {NoSignal} :
          idCounter < MaxIds /\ OnAct(e, Plain(1), sig)
    \/ \E e \in Events, n \in 0..(MaxIds - 1) : OffAct(e, ById(n))
    \/ \E sig \in SignalIds : AbortAct(sig)
    \/ \E e \in {NoEvent, "a"} : RemoveAllListenersAct(e)

SpecNames == Init /\ [][NextNames]_vars

\* ---------------------------------------------------------------- builder specification

\* At most this many builders are held at a time.
MaxBuilders == 2

\* Builders for one event, obtained at any time and called in any order,
\* each held on or replaced by the builder its call returns, with
\* removeAllOperations in between.
NextBuilder ==
    \/ Len(builders) < MaxBuilders /\ OperationAct("a")
    \/ \E b \in 1..Len(builders), s \in ChainSteps, fluent \in BOOLEAN :
          /\ Len(Registered(operationChains, "a")) < MaxSteps
          /\ Len(builders[b].chain) < MaxSteps
          /\ BuilderCallAct(b, s, fluent)
    \/ RemoveAllOperationsAct("a")

SpecBuilder == Init /\ [][NextBuilder]_vars

\* ---------------------------------------------------------------- timing removal specification

\* Event "a" with a transform, a debounce delay and a throttle delay, event
\* "b" with a throttle delay, per-name and wildcard listeners, and emits
\* before time MaxTime, with removeDebounce and removeThrottle while time
\* passes.
NextRemoveTiming ==
    \/ \E e \in Targets :
          idCounter < TimingMaxIds /\ OnAct(e, Plain(1), NoSignal)
    \/ "a" \notin DOMAIN operationChains
          /\ AppendStepAct("a", Step("transform", "inc"))
    \/ "a" \notin DOMAIN debounceDelays /\ DebounceAct("a", DebounceDelay)
    \/ \E e \in Events :
          e \notin DOMAIN throttleDelays /\ ThrottleAct(e, ThrottleDelay)
    \/ \E e \in Events : now < MaxTime /\ EmitAct(e, 3)
    \/ \E e \in Events : RemoveDebounceAct(e)
    \/ \E e \in Events : RemoveThrottleAct(e)
    \/ FireDue
    \/ TickToTimers

SpecRemoveTiming == Init /\ [][NextRemoveTiming]_vars

\* ---------------------------------------------------------------- rebinding specification

\* Steps of each type that append a step to the chain they belong to, or
\* remove the operations of their event, while they run.
RebindingSteps ==
    {Step("tap", "grow"), Step("transform", "grow"), Step("filter", "clear")}

\* Listeners that do the same, per-name and wildcard, and a plain one.
RebindingListeners ==
    {<<"a", Grow>>, <<"a", Clear>>, <<Wildcard, Grow>>, <<Wildcard, Plain(1)>>}

\* Per-name and wildcard listeners, a chain on "a" that starts with one of
\* those steps, a builder obtained at any time, and emits of "a" while the
\* chain has at most MaxSteps steps.
NextRebinding ==
    \/ \E l \in RebindingListeners :
          idCounter < ChainMaxIds /\ OnAct(l[1], l[2], NoSignal)
    \/ \E s \in RebindingSteps :
          "a" \notin DOMAIN operationChains /\ AppendStepAct("a", s)
    \/ builders = <<>> /\ OperationAct("a")
    \/ RemoveAllOperationsAct("a")
    \/ Len(Registered(operationChains, "a")) <= MaxSteps /\ EmitAct("a", 1)

SpecRebinding == Init /\ [][NextRebinding]_vars

\* ---------------------------------------------------------------- registry views

\* The listeners subscribed under target e: the wildcard list for '*'.
Subscribed(ls, ws, e) == IF e = Wildcard THEN ws ELSE Registered(ls, e)

\* All registered listeners, the wildcard list first.
AllRegistered(ls, ws) ==
    {<<Wildcard, i, ws[i].id>> : i \in 1..Len(ws)}
      \cup UNION {{<<e, i, ls[e][i].id>> : i \in 1..Len(ls[e])} : e \in DOMAIN ls}

\* ---------------------------------------------------------------- removal during delivery

\* Handlers that return, that remove the wildcard listeners of Plain(1), and
\* that remove all listeners.
RemovingHandlers == {Plain(1), OffWild(1), RemoveAll}

\* Per-name and wildcard listeners that remove wildcard listeners while an
\* emission is delivered.
NextRemoving ==
    \/ \E e \in ReentrantTargets, h \in RemovingHandlers :
          idCounter < MaxIds /\ OnAct(e, h, NoSignal)
    \/ EmitAct("a", 1)

SpecRemoving == Init /\ [][NextRemoving]_vars

\* ---------------------------------------------------------------- subscription during delivery

\* Handlers that return, that subscribe Plain(1) under their own target, and
\* that subscribe Plain(1) under the wildcard.
SubscribingHandlers == {Plain(1), OnSub(1), OnWild(1)}

\* The listeners an emit on event calls that subscribe a listener when called.
Subscribers(event) ==
    {l \in AllRegistered(listeners, wildcardListeners) :
        /\ l[1] \in {event, Wildcard}
        /\ Subscribed(listeners, wildcardListeners, l[1])[l[2]].handler
              \in {OnSub(1), OnWild(1)}}

\* Per-name and wildcard listeners that subscribe listeners while an emission
\* is delivered; at most MaxIds ids are handed out, by on calls from outside
\* and from inside the handlers together.
NextSubscribing ==
    \/ \E e \in ReentrantTargets, h \in SubscribingHandlers :
          idCounter < MaxIds /\ OnAct(e, h, NoSignal)
    \/ \E n \in 0..(MaxIds - 1) : OffAct("a", ById(n))
    \/ idCounter + Cardinality(Subscribers("a")) <= MaxIds /\ EmitAct("a", 1)

SpecSubscribing == Init /\ [][NextSubscribing]_vars

\* ---------------------------------------------------------------- properties

\* The ids of a sequence of listeners or of calls, in order.
IdsOf(s) == [i \in 1..Len(s) |-> s[i].id]

\* The calls that got the bare payload (per-name listeners).
BareCalls(cs) == SelectSeq(cs, LAMBDA c : ~c.env)

\* The calls that got the envelope (wildcard listeners).
EnvCalls(cs) == SelectSeq(cs, LAMBDA c : c.env)

\* Ids are handed out by a counter, so ascending ids are subscription order.
Ascending(ids) == \A i, j \in 1..Len(ids) : i < j => ids[i] < ids[j]

\* The listener with this id, registered under an event or the wildcard.
IsRegistered(id) ==
    \/ \E e \in DOMAIN listeners : \E i \in 1..Len(listeners[e]) :
          listeners[e][i].id = id
    \/ \E i \in 1..Len(wildcardListeners) : wildcardListeners[i].id = id

\* C1: after any sequence of on and off calls, with no chain, throttle or
\* debounce on the event, an emit on an event with registered listeners calls
\* exactly the listeners registered under it, once each, in subscription
\* order, with the payload, and returns true.
C1_EmitCallsRegisteredInOrder ==
    [][(lastOp'.op = "emit" /\ Registered(listeners, lastOp'.event) # <<>>)
        => LET regs == Registered(listeners, lastOp'.event)
           IN  /\ BareCalls(calls') =
                     [i \in 1..Len(regs) |-> Call(regs[i], FALSE, "", lastOp'.data)]
               /\ Ascending(IdsOf(regs))
               /\ ret' = TRUE
               /\ raised' = FALSE]_vars

\* C1's case: three listeners were subscribed, the second was removed, and an
\* emit called the first and the third, in that order.
C1_Witness ==
    /\ lastOp.op = "emit" /\ lastOp.event = "a" /\ ret
    /\ IdsOf(BareCalls(calls)) = <<0, 2>>
    /\ idCounter = 3 /\ ~IsRegistered(1)

\* C8: when a per-name listener raises during an emission, all per-name
\* listeners of the event are still called once each, all wildcard listeners
\* are called, and emit returns true without raising.
C8_RaisingListenerIsIsolated ==
    [][(/\ lastOp'.op = "emit"
        /\ \E i \in 1..Len(Registered(listeners, lastOp'.event)) :
              Throws(Registered(listeners, lastOp'.event)[i].handler))
        => /\ IdsOf(BareCalls(calls')) = IdsOf(Registered(listeners, lastOp'.event))
           /\ IdsOf(EnvCalls(calls')) = IdsOf(wildcardListeners)
           /\ ret' = TRUE
           /\ raised' = FALSE]_vars

\* C8's case: the first listener of the event raises, a second per-name
\* listener and a wildcard listener were called after it.
C8_Witness ==
    /\ lastOp.op = "emit" /\ ret /\ ~raised
    /\ Len(Registered(listeners, lastOp.event)) = 2
    /\ Throws(Registered(listeners, lastOp.event)[1].handler)
    /\ ~Throws(Registered(listeners, lastOp.event)[2].handler)
    /\ Len(BareCalls(calls)) = 2
    /\ Len(EnvCalls(calls)) = 1

\* Whether a call of handler h removes listener l from the set it runs in.
RemovedBy(h, l) ==
    \/ h.kind = "offSelf" /\ l.handler = h
    \/ h.kind = "offRef" /\ l.handler = Plain(h.ref)

\* C9: when per-name listeners of an event unsubscribe themselves or other
\* per-name listeners of that event during an emission, every listener that
\* was registered when the emission started is still called once, in order,
\* in that emission; the listeners so removed are not registered afterwards,
\* and an emit calls registered listeners only.
C9_OffDuringDeliveryKeepsSnapshot ==
    [][lastOp'.op = "emit"
        => LET regs == Registered(listeners, lastOp'.event)
               after == Registered(listeners', lastOp'.event)
           IN  /\ IdsOf(BareCalls(calls')) = IdsOf(regs)
               /\ \A i, j \in 1..Len(regs) :
                     RemovedBy(regs[i].handler, regs[j])
                       => \A k \in 1..Len(after) : after[k].id # regs[j].id
               /\ \A k \in 1..Len(after) :
                     \E j \in 1..Len(regs) :
                        /\ regs[j] = after[k]
                        /\ \A i \in 1..Len(regs) : ~RemovedBy(regs[i].handler, regs[j])]_vars

\* C9's case: the first listener removed the second by reference and the third
\* removed itself; all three were called, and none of the removed is left.
C9_Witness ==
    /\ lastOp.op = "emit" /\ lastOp.event = "a" /\ ret
    /\ IdsOf(BareCalls(calls)) = <<0, 1, 2>>
    /\ Registered(listeners, "a") = <<[id |-> 0, handler |-> OffRef(1)]>>

\* ---------------------------------------------------------------- chain properties

\* The operations that deliver a payload at once.
IsDelivery(op) == op.op \in {"emit", "emitToListener"}

\* The number of transforms "inc" among the steps before position i.
IncsBefore(steps, i) ==
    Cardinality({k \in 1..(i - 1) : k <= Len(steps) /\ steps[k].handler = "inc"})

\* The fold of payload d through steps, in closed form: the running value a
\* step at position i sees, whether a filter "lt" rejects it, whether a
\* transform raises, and the final value.
RunningAt(steps, d, i) == d + IncsBefore(steps, i)

Rejected(steps, d) ==
    \E i \in 1..Len(steps) :
       steps[i].handler = "lt" /\ ~(RunningAt(steps, d, i) < FilterLimit)

TransformRaises(steps) == \E i \in 1..Len(steps) : steps[i].handler = "throwT"

Final(steps, d) == RunningAt(steps, d, Len(steps) + 1)

\* The calls of an emission that delivers v: the per-name listeners regs with
\* the bare value, then the wildcard listeners ws with the envelope.
ExpectedCalls(regs, ws, event, v) ==
    [i \in 1..Len(regs) |-> Call(regs[i], FALSE, "", v)]
      \o [i \in 1..Len(ws) |-> Call(ws[i], TRUE, event, v)]

\* C2: in one emission the wildcard listeners are called after all per-name
\* listeners of the event, in their own subscription order, each with the
\* envelope {type: event, data: processed payload}; a suppressed emission
\* calls none.
C2_WildcardAfterPerNameWithEnvelope ==
    [][lastOp'.op = "emit"
        => LET e == lastOp'.event
               steps == Registered(operationChains, e)
           IN  /\ Ascending(IdsOf(wildcardListeners))
               /\ calls' = IF Rejected(steps, lastOp'.data) THEN <<>>
                           ELSE ExpectedCalls(Registered(listeners, e),
                                              wildcardListeners, e,
                                              Final(steps, lastOp'.data))]_vars

\* C2's case: a per-name listener subscribed after two wildcard listeners is
\* called before them, and they get the transformed payload in an envelope.
C2_Witness ==
    /\ lastOp.op = "emit" /\ ret
    /\ IdsOf(wildcardListeners) = <<0, 1>>
    /\ Registered(operationChains, "a") = <<Step("transform", "inc")>>
    /\ calls = <<[id |-> 2, env |-> FALSE, type |-> "", data |-> 4],
                 [id |-> 0, env |-> TRUE, type |-> "a", data |-> 4],
                 [id |-> 1, env |-> TRUE, type |-> "a", data |-> 4]>>

\* The emit of the step finds neither a per-name nor a wildcard listener.
EmitFindsNoListener ==
    /\ lastOp'.op = "emit"
    /\ Registered(listeners, lastOp'.event) = <<>>
    /\ wildcardListeners = <<>>

\* C3 as stated: an emit on an event with no per-name listener and no
\* wildcard listener returns false and runs no step of the chain, whatever is
\* configured for the event.
C3_EmitWithoutListenersReturnsFalse ==
    [][EmitFindsNoListener => (ret' = FALSE /\ evals' = <<>>)]_vars

\* C3, amended: an emit on an event with no per-name listener and no wildcard
\* listener runs no step of the chain and calls nothing, whether the event has
\* no Set or an empty one; it returns false unless a debounce delay is
\* configured for the event and the throttle gate lets the emission pass, and
\* then it returns true and leaves a pending timer; that timer, finding no
\* listener either, runs no step of the chain.
C3_EmitWithoutListenersDoesNothing ==
    [][/\ EmitFindsNoListener
          => (/\ raised' = FALSE /\ evals' = <<>> /\ calls' = <<>>
              /\ ~Truthy(GetNum(debounceDelays, lastOp'.event)) => ret' = FALSE
              /\ ret' = TRUE
                   => (/\ Truthy(GetNum(debounceDelays, lastOp'.event))
                       /\ lastOp'.event \in DOMAIN debounceTimers'
                       /\ debounceTimers'[lastOp'.event] \in timers'))
       /\ (/\ lastOp'.op = "fire"
           /\ Registered(listeners, lastOp'.event) = <<>>
           /\ wildcardListeners = <<>>)
          => (evals' = <<>> /\ calls' = <<>>)]_vars

\* C3's case: the only listener of the event was removed by off, a chain with
\* a tap is bound, no debounce delay is configured, and an emit returned false.
C3_Witness ==
    /\ lastOp.op = "emit" /\ ~ret /\ evals = <<>>
    /\ "a" \in DOMAIN listeners /\ listeners["a"] = <<>>
    /\ wildcardListeners = <<>>
    /\ "a" \notin DOMAIN debounceDelays
    /\ \E i \in 1..Len(Registered(operationChains, "a")) :
          operationChains["a"][i].type = "tap"

\* A logged step that is a filter whose predicate returned false.
RejectingFilter(entry) ==
    /\ entry.type = "filter"
    /\ ~StepHandler(entry.handler, entry.value).threw
    /\ ~StepHandler(entry.handler, entry.value).keep

\* The index in evals of the evaluation made for wildcard listener j of an
\* emission on an event with p per-name listeners.
WildcardEval(p, j) == (IF p > 0 THEN 1 ELSE 0) + j

\* No listener was called for evaluation k of the last delivery.
NotDeliveredFor(op, k, regs, ws, cs) ==
    IF op.op = "emitToListener" THEN cs = <<>>
    ELSE IF Len(regs) > 0 /\ k = 1 THEN BareCalls(cs) = <<>>
    ELSE \A j \in 1..Len(ws) :
            WildcardEval(Len(regs), j) = k
              => \A c \in 1..Len(cs) : ~(cs[c].env /\ cs[c].id = ws[j].id)

\* C4: in every chain evaluation of a delivery, a filter that returns false is
\* the last step that runs and the result is undefined; no listener is called
\* for such an evaluation, and a delivery all of whose evaluations are
\* suppressed returns false.
C4_FilterFalseSuppresses ==
    [][IsDelivery(lastOp')
        => LET regs == Registered(listeners, lastOp'.event)
           IN  /\ \A k \in 1..Len(evals') :
                     \A j \in 1..Len(evals'[k].log) :
                        RejectingFilter(evals'[k].log[j])
                          => /\ j = Len(evals'[k].log)
                             /\ evals'[k].log[j].pos = j
                             /\ evals'[k].result = Undefined
                             /\ NotDeliveredFor(lastOp', k, regs,
                                                wildcardListeners, calls')
               /\ (evals' # <<>> /\ \A k \in 1..Len(evals') :
                                       evals'[k].result = Undefined)
                     => (calls' = <<>> /\ ret' = FALSE)]_vars

\* C4's case: a filter at position 1 rejected the payload, the tap after it did
\* not run, and neither the per-name nor the wildcard listener was called.
C4_Witness ==
    /\ lastOp.op = "emit" /\ ~ret /\ calls = <<>>
    /\ Registered(operationChains, "a") = <<Step("filter", "lt"), Step("tap", "tap")>>
    /\ Len(Registered(listeners, "a")) = 1 /\ Len(wildcardListeners) = 1
    /\ Len(evals) = 1 /\ Len(evals[1].log) = 1 /\ evals[1].result = Undefined

\* C5: every evaluation runs the steps in attachment order; the step at
\* position i is called with the payload plus the number of transforms
\* before i (each adds one), a tap or filter leaves that value unchanged, and
\* the listeners get the final value; the delivery is suppressed exactly when
\* a filter rejects its running value.
C5_ExecuteFoldsInOrder ==
    [][IsDelivery(lastOp')
        => LET steps == Registered(operationChains, lastOp'.event)
               d == lastOp'.data
           IN  /\ \A k \in 1..Len(evals') :
                     /\ \A j \in 1..Len(evals'[k].log) :
                           evals'[k].log[j] = StepRun(j, steps[j], RunningAt(steps, d, j))
                     /\ evals'[k].result =
                           IF Rejected(steps, d) THEN Undefined ELSE Final(steps, d)
                     /\ ~Rejected(steps, d) => Len(evals'[k].log) = Len(steps)
               /\ \A c \in 1..Len(calls') : calls'[c].data = Final(steps, d)
               /\ Rejected(steps, d) => (calls' = <<>> /\ ret' = FALSE)
               /\ (lastOp'.op = "emit" /\ ~Rejected(steps, d))
                     => (ret' = (calls' # <<>>)
                         /\ Len(calls') = Len(Registered(listeners, lastOp'.event))
                                            + Len(wildcardListeners))]_vars

\* C5's case: with transform(x + 1) then filter(x < 5), emit 3 delivered 4 and
\* returned true.
C5_Witness ==
    /\ lastOp.op = "emit" /\ lastOp.data = 3 /\ ret
    /\ Registered(operationChains, "a") = <<Step("transform", "inc"), Step("filter", "lt")>>
    /\ FilterLimit = 5
    /\ calls # <<>> /\ calls[1].data = 4

\* A logged step of the given types whose handler raised.
RaisingStep(entry, types) ==
    entry.type \in types /\ StepHandler(entry.handler, entry.value).threw

\* C6: in every chain evaluation of a delivery, a transform that raises is the
\* last step that runs and the result is undefined; no listener is called for
\* that evaluation, and emit or emitToListener returns false without raising.
C6_RaisingTransformSuppresses ==
    [][IsDelivery(lastOp')
        => LET regs == Registered(listeners, lastOp'.event)
               steps == Registered(operationChains, lastOp'.event)
           IN  /\ \A k \in 1..Len(evals') :
                     \A j \in 1..Len(evals'[k].log) :
                        RaisingStep(evals'[k].log[j], {"transform"})
                          => /\ j = Len(evals'[k].log)
                             /\ evals'[k].result = Undefined
                             /\ NotDeliveredFor(lastOp', k, regs,
                                                wildcardListeners, calls')
               /\ TransformRaises(steps)
                     => (calls' = <<>> /\ ret' = FALSE /\ raised' = FALSE)]_vars

\* C6's case: the transform at position 1 raised, the tap after it did not
\* run, no per-name or wildcard listener was called, emit returned false.
C6_Witness ==
    /\ lastOp.op = "emit" /\ ~ret /\ ~raised /\ calls = <<>>
    /\ Registered(operationChains, "a") =
          <<Step("transform", "throwT"), Step("tap", "throwTap")>>
    /\ Len(Registered(listeners, "a")) = 1 /\ Len(wildcardListeners) = 1
    /\ Len(evals) = 1 /\ Len(evals[1].log) = 1 /\ evals[1].result = Undefined

\* C7: in every chain evaluation of a delivery, after a filter or tap that
\* raises the next step runs with the same running value, or, after the last
\* step, that value is the result; when no transform raises, the listeners are
\* called with the value the whole chain produces.
C7_RaisingFilterOrTapContinues ==
    [][IsDelivery(lastOp')
        => LET regs == Registered(listeners, lastOp'.event)
               steps == Registered(operationChains, lastOp'.event)
               d == lastOp'.data
           IN  /\ \A k \in 1..Len(evals') :
                     \A j \in 1..Len(evals'[k].log) :
                        RaisingStep(evals'[k].log[j], {"filter", "tap"})
                          => IF j < Len(steps)
                             THEN /\ Len(evals'[k].log) > j
                                  /\ evals'[k].log[j + 1].pos = j + 1
                                  /\ evals'[k].log[j + 1].value = evals'[k].log[j].value
                             ELSE evals'[k].result = evals'[k].log[j].value
               /\ ~TransformRaises(steps)
                     => /\ \A c \in 1..Len(calls') : calls'[c].data = Final(steps, d)
                        /\ lastOp'.op = "emit"
                              => calls' = ExpectedCalls(regs, wildcardListeners,
                                                        lastOp'.event, Final(steps, d))
                        /\ (lastOp'.op = "emitToListener"
                              /\ \E i \in 1..Len(regs) : regs[i].id = lastOp'.id)
                              => (Len(calls') = 1 /\ ret' = TRUE)]_vars

\* C7's case: the filter at position 1 raised, the transform after it ran, and
\* the listener was called with the transformed payload.
C7_Witness ==
    /\ lastOp.op = "emit" /\ lastOp.data = 3 /\ ret
    /\ Registered(operationChains, "a") =
          <<Step("filter", "throwF"), Step("transform", "inc")>>
    /\ Len(evals) = 1 /\ Len(evals[1].log) = 2 /\ evals[1].result = 4
    /\ calls = <<[id |-> 0, env |-> FALSE, type |-> "", data |-> 4]>>

\* ---------------------------------------------------------------- once properties

\* The timers of once call p that are still pending.
TimersOf(ts, p) == {t \in ts : t.kind = "once" /\ t.owner = p}

\* The listeners of a sequence that are not the one-shot listener of a once
\* call in ps.
WithoutOnce(ls, ps) ==
    SelectSeq(ls, LAMBDA l : ~(l.handler.kind = "once" /\ l.handler.ref \in ps))

\* C10: a once promise that has settled never changes; a delivery to its
\* event, the expiry of its timer or the abort of its signal settles a
\* pending promise as resolved with the payload, rejected with the timeout and
\* its duration, or rejected as aborted; a settled promise has no pending
\* timer and no registered listener; and a timer or abort step removes from
\* the registry only the listeners of the promises it settles.
C10_OnceSettlesOnceFirstTriggerWins ==
    [][\A p \in 1..Len(promises) :
          LET pr == promises[p]
              settled == {q \in 1..Len(promises) :
                             promises[q].state = "pending"
                               /\ promises'[q].state # "pending"}
          IN  /\ pr.state # "pending" => promises'[p] = pr
              /\ (/\ pr.state = "pending" /\ lastOp'.op = "emit"
                  /\ lastOp'.event = pr.event /\ IsRegistered(pr.id))
                    => (promises'[p].state = "resolved"
                        /\ promises'[p].value = lastOp'.data)
              /\ (/\ pr.state = "pending" /\ lastOp'.op = "fire"
                  /\ TimersOf(timers, p) # {} /\ TimersOf(timers', p) = {})
                    => (promises'[p].state = "rejected"
                        /\ promises'[p].error = TimeoutError(pr.timeout))
              /\ (/\ pr.state = "pending" /\ lastOp'.op = "abort"
                  /\ pr.signal = lastOp'.sig /\ ~signals[pr.signal].aborted)
                    => (promises'[p].state = "rejected"
                        /\ promises'[p].error = AbortError)
              /\ promises'[p].state # "pending"
                    => (TimersOf(timers', p) = {}
                        /\ \A e \in DOMAIN listeners' :
                              \A i \in 1..Len(listeners'[e]) :
                                 listeners'[e][i].id # pr.id)
              /\ lastOp'.op \in {"fire", "abort"}
                    => (/\ DOMAIN listeners' = DOMAIN listeners
                        /\ \A e \in DOMAIN listeners :
                              listeners'[e] = WithoutOnce(listeners[e], settled)
                        /\ wildcardListeners' = wildcardListeners)]_vars

\* C10's case: of two once calls with timeout and signal, one was resolved by
\* an emission and the other, made later, was rejected when the signal
\* aborted; no timer is pending and no listener is left.
C10_Witness ==
    /\ Len(promises) = 2
    /\ promises[1].state = "resolved" /\ promises[1].timeout = 1
    /\ promises[1].signal = 1
    /\ promises[2].state = "rejected" /\ promises[2].error = AbortError
    /\ promises[2].timeout = 1
    /\ lastOp.op = "abort"
    /\ timers = {} /\ Registered(listeners, "a") = <<>>

\* The once calls on event e that are pending with their listener registered.
PendingOnce(e) ==
    {p \in 1..Len(promises) :
        /\ promises[p].state = "pending" /\ promises[p].event = e
        /\ IsRegistered(promises[p].id)}

\* How many calls of the log went to listener id.
CallsTo(cs, id) == Cardinality({i \in 1..Len(cs) : cs[i].id = id})

\* C11: an emit on e calls the listener of every pending once(e) exactly
\* once and resolves it with the emitted payload; a once call that had
\* settled before is not called and keeps its result; afterwards no one-shot
\* listener is left under e, so that the listener count of e is the count of
\* its other listeners.
C11_EmitResolvesEveryPendingOnce ==
    [][lastOp'.op = "emit" =>
         LET e == lastOp'.event
         IN  /\ \A p \in PendingOnce(e) :
                   /\ promises'[p].state = "resolved"
                   /\ promises'[p].value = lastOp'.data
                   /\ CallsTo(calls', promises[p].id) = 1
             /\ \A p \in 1..Len(promises) :
                   promises[p].state # "pending"
                     => (promises'[p] = promises[p]
                         /\ CallsTo(calls', promises[p].id) = 0)
             /\ Registered(listeners', e)
                  = WithoutOnce(Registered(listeners, e), 1..Len(promises))
             /\ ret' = (Registered(listeners, e) # <<>>)]_vars

\* C11's case: two once calls were pending on the event, and one emit called
\* both listeners in order, resolved both with its payload and left the event
\* with the listener count it had before them.
C11_Witness ==
    /\ lastOp.op = "emit" /\ lastOp.data = 4
    /\ Len(promises) = 2
    /\ \A p \in 1..2 : promises[p].state = "resolved" /\ promises[p].value = 4
    /\ Len(calls) = 2 /\ calls[1].id = promises[1].id /\ calls[2].id = promises[2].id
    /\ Registered(listeners, "a") = <<>>

\* Once call p of the state after the step was made with a signal that was
\* already aborted: it is made by this step with an aborted signal, or it was
\* pending before the step although its signal had aborted.
MadeWithAbortedSignal(p) ==
    /\ promises'[p].signal # NoSignal
    /\ signals[promises'[p].signal].aborted
    /\ \/ p > Len(promises)
       \/ promises[p].state = "pending"

\* C12: a once call made with an already aborted signal registers no
\* one-shot listener and its promise never resolves, whatever is emitted
\* afterwards.
C12_OnceWithAbortedSignalNeverResolves ==
    [][\A p \in 1..Len(promises') :
          MadeWithAbortedSignal(p)
            => (/\ promises'[p].state # "resolved"
                /\ \A e \in DOMAIN listeners' :
                      \A i \in 1..Len(listeners'[e]) :
                         listeners'[e][i].id # promises'[p].id)]_vars

\* Once call p has been made with a timeout T > 0.
TimedOnce(p) == IF Len(promises) >= p THEN promises[p].timeout > 0 ELSE FALSE

\* Once call p has been made and has settled.
SettledOnce(p) == IF Len(promises) >= p THEN promises[p].state # "pending" ELSE FALSE

\* C13: every once call with a timeout T > 0 eventually settles; when its
\* timer fires while it is pending it is rejected with the timeout error
\* carrying T; and once it is rejected its one-shot listener is not registered,
\* also when removeAllListeners had dropped the listener before.
C13_OnceWithTimeoutSettles ==
    /\ \A p \in 1..MaxOnce :
          TimedOnce(p) ~> SettledOnce(p)
    /\ [][\A p \in 1..Len(promises) :
             /\ (/\ promises[p].state = "pending" /\ lastOp'.op = "fire"
                 /\ TimersOf(timers, p) # {} /\ TimersOf(timers', p) = {})
                  => promises'[p].error = TimeoutError(promises[p].timeout)
             /\ promises'[p].state = "rejected"
                  => \A e \in DOMAIN listeners' :
                        \A i \in 1..Len(listeners'[e]) :
                           listeners'[e][i].id # promises[p].id]_vars

\* C13's case: removeAllListeners dropped the listener of a pending once
\* call with a timeout, and the timer then rejected it with the timeout error.
C13_Witness ==
    /\ lastOp.op = "fire"
    /\ Len(promises) >= 1
    /\ promises[1].state = "rejected" /\ promises[1].error = TimeoutError(1)
    /\ listeners = EmptyMap

\* ---------------------------------------------------------------- targeted emission properties

\* The listeners registered under event e with the given id.
Target(e, id) == SelectSeq(Registered(listeners, e), LAMBDA l : l.id = id)

\* C14: emitToListener calls nothing but the per-name listener with the
\* given id, with the bare payload and at once, whether or not the event is
\* inside its throttle window or has a debounce delay, and leaves the
\* last-fire record, the pending debounced emission and the timers as they
\* were.
C14_EmitToListenerOnlyTargetUngated ==
    [][lastOp'.op = "emitToListener" =>
         LET found == Target(lastOp'.event, lastOp'.id)
         IN  /\ throttleTimers' = throttleTimers
             /\ debounceTimers' = debounceTimers
             /\ timers' = timers
             /\ \A i \in 1..Len(calls') :
                   calls'[i].id = lastOp'.id /\ ~calls'[i].env
             /\ found # <<>>
                  => calls' = <<Call(found[1], FALSE, "", lastOp'.data)>>]_vars

\* C14's case: inside the throttle window of the event, with a debounced
\* emission pending and another per-name listener and a wildcard listener
\* registered, emitToListener called its target alone and returned true.
C14_Witness ==
    /\ lastOp.op = "emitToListener" /\ ret
    /\ Len(calls) = 1 /\ calls[1].id = lastOp.id
    /\ Len(Registered(listeners, "a")) = 2 /\ Len(wildcardListeners) = 1
    /\ "a" \in DOMAIN debounceTimers /\ debounceTimers["a"] \in timers
    /\ Truthy(GetNum(throttleDelays, "a"))
    /\ Truthy(GetNum(throttleTimers, "a"))
    /\ now - GetNum(throttleTimers, "a") < GetNum(throttleDelays, "a")

Deferred(ts, e) == {t \in ts : t.kind = "debounce" /\ t.event = e}

\* C16: with a debounce delay D > 0 on the event and no throttle, every emit
\* returns true, calls nothing and leaves exactly one deferred emission
\* pending, carrying its own payload and due D after it; listeners are called
\* only when a deferred emission fires, which is when it is due, with the
\* payload it carries, after which none is pending.
C16_DebounceDeliversLastOnce ==
    [][LET e == lastOp'.event
           D == GetNum(debounceDelays, e)
       IN  /\ (lastOp'.op = "emit" /\ D > 0)
                => (/\ ret' = TRUE /\ calls' = <<>>
                    /\ Deferred(timers', e)
                         = {[kind |-> "debounce", event |-> e,
                             data |-> lastOp'.data, due |-> now + D, owner |-> 0]})
           /\ (lastOp'.op = "fire" /\ Deferred(timers, e) # {})
                => (/\ \A t \in Deferred(timers, e) :
                          t.due = now /\ t.data = lastOp'.data
                    /\ calls' = ExpectedCalls(Registered(listeners, e),
                                              wildcardListeners, e, lastOp'.data)
                    /\ Deferred(timers', e) = {})
           /\ ("a" \in DOMAIN debounceDelays /\ calls' # <<>>)
                => lastOp'.op = "fire"
           /\ Cardinality(Deferred(timers', "a")) <= 1]_vars

\* C16's case: two emits one millisecond apart with a delay of two; the
\* deferred emission fired two milliseconds after the second emit and
\* delivered the second payload to the listener.
C16_Witness ==
    /\ lastOp.op = "fire" /\ lastOp.data = 4 /\ now = 3
    /\ calls = <<[id |-> 0, env |-> FALSE, type |-> "", data |-> 4]>>
    /\ timers = {}
    /\ GetNum(debounceDelays, "a") = 2

\* C17: with a throttle delay D > 0 on the event, no debounce and a listener
\* registered, an emit less than D after the last accepted emit returns false
\* and calls nothing, and an emit D or more after it is delivered, at whatever
\* clock value the accepted emit was recorded.
C17_ThrottleDropsWithinDelay ==
    [][(/\ lastOp'.op = "emit"
        /\ GetNum(throttleDelays, lastOp'.event) > 0
        /\ ~Truthy(GetNum(debounceDelays, lastOp'.event))
        /\ lastOp'.event \in DOMAIN throttleTimers
        /\ Registered(listeners, lastOp'.event) # <<>>)
         => LET e == lastOp'.event
                last == throttleTimers[e]
            IN  IF now - last < throttleDelays[e]
                THEN ret' = FALSE /\ calls' = <<>>
                ELSE /\ ret' = TRUE
                     /\ calls' = ExpectedCalls(Registered(listeners, e),
                                               wildcardListeners, e, lastOp'.data)]_vars

\* The emit of the step left the emitter, its timers and the logs as they
\* were and returned false.
EmitChangedNothing ==
    /\ ret' = FALSE /\ calls' = <<>> /\ evals' = <<>>
    /\ UNCHANGED <<listeners, wildcardListeners, operationChains, debounceTimers,
                   debounceDelays, throttleTimers, throttleDelays, idCounter,
                   maxListeners, timers>>

\* C18: an emit on an event with a throttle delay either is dropped, and
\* then changes nothing at all (the last-fire record, the pending debounced
\* emission and its payload stay, no step runs, nothing is called), or passes,
\* and then records its time as last-fire; with a debounce delay too, a
\* passing emit is deferred after the record is made, and the pending
\* debounced emission changes only in emits that pass; an emit inside the
\* delay of a last-fire record is dropped.
C18_ThrottledEmitChangesNothing ==
    [][(lastOp'.op = "emit" /\ Truthy(GetNum(throttleDelays, lastOp'.event)))
         => LET e == lastOp'.event
                D == GetNum(debounceDelays, e)
                passed ==
                    /\ throttleTimers' = MapSet(throttleTimers, e, now)
                    /\ Truthy(D)
                         => (/\ ret' = TRUE /\ calls' = <<>>
                             /\ Deferred(timers', e)
                                  = {[kind |-> "debounce", event |-> e,
                                      data |-> lastOp'.data, due |-> now + D,
                                      owner |-> 0]})
            IN  /\ EmitChangedNothing \/ passed
                /\ (timers' # timers \/ debounceTimers' # debounceTimers)
                     => passed
                /\ (/\ Truthy(GetNum(throttleTimers, e))
                    /\ now - GetNum(throttleTimers, e) < throttleDelays[e])
                     => EmitChangedNothing]_vars

\* C18's case: with throttle and debounce configured, an emit passed the
\* throttle and was deferred, and a second emit with another payload inside
\* the throttle delay was dropped: the deferred emission still carries the
\* first payload and the last-fire record is the time of the first emit.
C18_Witness ==
    /\ lastOp.op = "emit" /\ ~ret /\ lastOp.data = 4
    /\ Truthy(GetNum(debounceDelays, "a"))
    /\ Truthy(GetNum(throttleTimers, "a")) /\ GetNum(throttleTimers, "a") < now
    /\ now - GetNum(throttleTimers, "a") < GetNum(throttleDelays, "a")
    /\ \E t \in Deferred(timers, "a") : t.data = 3 /\ debounceTimers["a"] = t

\* ---------------------------------------------------------------- registry properties

\* Whether listener l is what off(event, key) looks for.
Matches(key, l) == IF key.isId THEN l.id = key.id ELSE l.handler = key.handler

\* C19: off(e, key) leaves in the targeted set exactly the listeners that do
\* not match the key, in order, and returns true exactly when one matched; an
\* id removes at most one listener and a handler all its registrations; every
\* other set is unchanged; a false result leaves everything unchanged; and the
\* same call made again at once returns false.
C19_OffRemovesMatchesOnly ==
    [][lastOp'.op = "off" =>
         LET e == lastOp'.event
             key == lastOp'.key
             before == Subscribed(listeners, wildcardListeners, e)
             after == Subscribed(listeners', wildcardListeners', e)
         IN  /\ after = SelectSeq(before, LAMBDA l : ~Matches(key, l))
             /\ ret' = (\E i \in 1..Len(before) : Matches(key, before[i]))
             /\ key.isId => Len(before) - Len(after) <= 1
             /\ \A o \in (Events \cup {Wildcard}) \ {e} :
                   Subscribed(listeners', wildcardListeners', o)
                     = Subscribed(listeners, wildcardListeners, o)
             /\ ret' = FALSE
                  => (listeners' = listeners
                      /\ wildcardListeners' = wildcardListeners)
             /\ lastOp = lastOp' => ret' = FALSE]_vars

\* C19's case: one handler was registered twice under an event next to
\* another listener, a listener of the same handler is registered under the
\* other event, and off by handler removed both registrations and returned
\* true.
C19_Witness ==
    /\ lastOp.op = "off" /\ ret /\ ~lastOp.key.isId /\ lastOp.event = "a"
    /\ idCounter = MaxIds
    /\ Registered(listeners, "a") = <<>>
    /\ Len(Registered(listeners, "b")) = 1
    /\ listeners["b"][1].handler = lastOp.key.handler

\* The ids of the listeners registered under any event or the wildcard.
RegisteredIds(ls, ws) ==
    {ws[i].id : i \in 1..Len(ws)}
      \cup UNION {{ls[e][i].id : i \in 1..Len(ls[e])} : e \in DOMAIN ls}

\* C20: on with a signal that is already aborted returns the next id and
\* changes neither the listeners, the counts nor the signal; an id becomes
\* registered only by the on that returned it, when its signal was not
\* aborted; and an id that is not registered is never called by emit, and
\* emitToListener and off with it return false.
C20_OnWithAbortedSignalRegistersNothing ==
    [][LET regs == RegisteredIds(listeners, wildcardListeners)
           regs2 == RegisteredIds(listeners', wildcardListeners')
       IN  /\ (/\ lastOp'.op = "on" /\ lastOp'.sig # NoSignal
               /\ signals[lastOp'.sig].aborted)
                => (/\ lastOp'.id = idCounter /\ idCounter' = idCounter + 1
                    /\ lastOp'.id \notin regs
                    /\ listeners' = listeners
                    /\ wildcardListeners' = wildcardListeners
                    /\ signals' = signals)
           /\ \A id \in regs2 \ regs :
                 /\ lastOp'.op = "on" /\ lastOp'.id = id
                 /\ lastOp'.sig # NoSignal => ~signals[lastOp'.sig].aborted
           /\ \A i \in 1..Len(calls') : calls'[i].id \in regs
           /\ (lastOp'.op = "emitToListener" /\ lastOp'.id \notin regs)
                => (ret' = FALSE /\ calls' = <<>>)
           /\ (lastOp'.op = "off" /\ lastOp'.key.isId /\ lastOp'.key.id \notin regs)
                => ret' = FALSE]_vars

\* C20's case: after a listener was registered and the signal aborted, on
\* with that signal returned id 1 and the event still has the first listener
\* only.
C20_Witness ==
    /\ lastOp.op = "on" /\ lastOp.sig = 1 /\ lastOp.id = 1 /\ lastOp.event = "a"
    /\ signals[1].aborted
    /\ idCounter = 2
    /\ IdsOf(Registered(listeners, "a")) = <<0>>
    /\ wildcardListeners = <<>>

\* ---------------------------------------------------------------- abort properties

\* The ids that on registered under target e together with signal sig.
SignalledIds(sig, e) ==
    {signals[sig].handlers[i].id :
        i \in {j \in 1..Len(signals[sig].handlers) :
                  /\ signals[sig].handlers[j].kind = "off"
                  /\ signals[sig].handlers[j].event = e}}

\* C21: when a signal aborts, each set loses exactly the listeners that
\* were registered in it with that signal and that are still there; every other
\* listener stays, in order, also one with the same handler; an abort of an
\* aborted signal changes nothing; and an emit calls registered listeners only.
C21_AbortRemovesItsListenerOnly ==
    [][/\ lastOp'.op = "abort"
          => \A e \in {"a", "b", Wildcard} :
                Subscribed(listeners', wildcardListeners', e)
                  = IF signals[lastOp'.sig].aborted
                    THEN Subscribed(listeners, wildcardListeners, e)
                    ELSE SelectSeq(Subscribed(listeners, wildcardListeners, e),
                                   LAMBDA l : l.id \notin SignalledIds(lastOp'.sig, e))
       /\ \A i \in 1..Len(calls') :
             calls'[i].id \in RegisteredIds(listeners, wildcardListeners)]_vars

\* C21's case: the event had a listener with the signal between two
\* listeners of the same handler, and after the abort of the signal the two
\* others are registered.
C21_Witness ==
    /\ lastOp.op = "abort" /\ signals[1].aborted
    /\ IdsOf(Registered(listeners, "a")) = <<0, 2>>
    /\ idCounter = 3
    /\ \E i \in 1..Len(signals[1].handlers) :
          signals[1].handlers[i] = AbortOff("a", 1)

\* ---------------------------------------------------------------- id properties

\* C22: on and once return the value of the id counter and advance it; no
\* other operation changes the counter, so that every id returned is above all
\* ids returned before, whatever was removed in between; and no two
\* registered listeners have the same id.
C22_IdsAreFresh ==
    [][/\ lastOp'.op = "on"
          => (lastOp'.id = idCounter /\ idCounter' = idCounter + 1)
       /\ lastOp'.op = "once"
          => (/\ promises'[Len(promises')].id = idCounter
              /\ idCounter' = idCounter + 1)
       /\ lastOp'.op \notin {"on", "once"} => idCounter' = idCounter
       /\ \A r \in AllRegistered(listeners', wildcardListeners') :
             /\ r[3] < idCounter'
             /\ \A q \in AllRegistered(listeners', wildcardListeners') :
                   r[3] = q[3] => r = q]_vars

\* C22's case: after the listeners with ids 0 and 1 were removed, the
\* second by removeAllListeners, on returned 2 and not a removed id.
C22_Witness ==
    /\ lastOp.op = "on" /\ lastOp.id = 2
    /\ RegisteredIds(listeners, wildcardListeners) = {2}
    /\ ~signals[1].aborted /\ promises = <<>>
    /\ signals[1].handlers = <<>>

\* ---------------------------------------------------------------- cap properties

\* C23: an emitter constructed with maxListeners 0 has cap 0 and one
\* constructed without the option has cap 10; setMaxListeners(0) sets the cap
\* to 0; and with cap 0 no subscription warns.
C23_CapZeroDisablesWarning ==
    /\ [](lastOp.op = "new" /\ ~raised
            => maxListeners = (IF lastOp.data = Undefined
                               THEN DefaultMaxListeners ELSE lastOp.data))
    /\ [][/\ (lastOp'.op = "setMaxListeners" /\ lastOp'.data = 0)
               => maxListeners' = 0
          /\ (lastOp'.op = "on" /\ maxListeners = 0) => ~warned']_vars

\* C24: setMaxListeners(n) with n < 0 raises and changes nothing; with
\* n >= 0 it does not raise, returns the emitter and changes the cap to n
\* and nothing else; and a constructor given a negative cap raises.
C24_SetMaxListenersChecksSign ==
    /\ [](lastOp.op = "new" /\ lastOp.data # Undefined /\ lastOp.data < 0
            => raised)
    /\ [][lastOp'.op = "setMaxListeners"
            => /\ UNCHANGED <<listeners, wildcardListeners, operationChains,
                              debounceTimers, debounceDelays, throttleTimers,
                              throttleDelays, idCounter, timers>>
               /\ IF lastOp'.data < 0
                  THEN raised' /\ maxListeners' = maxListeners
                  ELSE ~raised' /\ ret' /\ maxListeners' = lastOp'.data]_vars

\* C24's case: on an emitter with cap 2, a listener, a chain and a debounce
\* delay, setMaxListeners with a negative number raised and the cap is 2.
C24_Witness ==
    /\ lastOp.op = "setMaxListeners" /\ lastOp.data < 0 /\ raised
    /\ maxListeners = 2
    /\ Registered(listeners, "a") # <<>>
    /\ operationChains # EmptyMap /\ debounceDelays # EmptyMap

\* ---------------------------------------------------------------- clearing properties

\* The pending debounced emissions of event f: the callback the emitter holds
\* for it, and the callbacks of f that the clock holds.
PendingDebounce(dt, ts, f) ==
    <<IF f \in DOMAIN dt THEN {dt[f]} ELSE {},
      {t \in ts : t.kind = "debounce" /\ t.event = f}>>

\* No debounced emission of f is pending.
NoPendingDebounce == <<{}, {}>>

\* The throttle last-fire record of event f, as a set.
ThrottleRecord(tt, f) == IF f \in DOMAIN tt THEN {tt[f]} ELSE {}

\* The chain and the delays bound to event f, each as a set.
Configured(oc, dd, td, f) ==
    <<IF f \in DOMAIN oc THEN {oc[f]} ELSE {},
      IF f \in DOMAIN dd THEN {dd[f]} ELSE {},
      IF f \in DOMAIN td THEN {td[f]} ELSE {}>>

\* Event f has no chain and no delay.
Unconfigured == <<{}, {}, {}>>

\* C25: removeAllListeners(e) leaves e without per-name listeners, without
\* pending debounced emission and without throttle record, and leaves the
\* wildcard listeners, the listeners and timing state of the other events and
\* all chains and delays as they were; without argument it does so for every
\* event and also empties the wildcard listeners; and the only debounced
\* emissions that are delivered are ones the emitter still holds.
C25_RemoveAllListenersFrame ==
    [][/\ lastOp'.op = "removeAllListeners"
          => LET e == lastOp'.event
             IN  /\ \A f \in Events :
                       IF e = NoEvent \/ f = e
                       THEN /\ Registered(listeners', f) = <<>>
                            /\ PendingDebounce(debounceTimers', timers', f)
                                  = NoPendingDebounce
                            /\ ThrottleRecord(throttleTimers', f) = {}
                       ELSE /\ Registered(listeners', f) = Registered(listeners, f)
                            /\ PendingDebounce(debounceTimers', timers', f)
                                  = PendingDebounce(debounceTimers, timers, f)
                            /\ ThrottleRecord(throttleTimers', f)
                                  = ThrottleRecord(throttleTimers, f)
                 /\ wildcardListeners' =
                       IF e = NoEvent THEN <<>> ELSE wildcardListeners
                 /\ UNCHANGED <<operationChains, debounceDelays, throttleDelays>>
       /\ lastOp'.op = "fire"
          => \E t \in timers :
                /\ timers' = timers \ {t}
                /\ PendingDebounce(debounceTimers, timers, t.event) = <<{t}, {t}>>]_vars

\* C25's case: after removeAllListeners("a") the listener that was on "a" is
\* gone and no timer is pending, while "a" keeps its chain and its delay, the
\* wildcard listener is still registered and "b" keeps its throttle record.
C25_Witness ==
    /\ lastOp.op = "removeAllListeners" /\ lastOp.event = "a"
    /\ idCounter = 2 /\ RegisteredIds(listeners, wildcardListeners) = {1}
    /\ Len(wildcardListeners) = 1
    /\ timers = {}
    /\ Configured(operationChains, debounceDelays, throttleDelays, "a")
          = <<{<<Step("transform", "inc")>>}, {DebounceDelay}, {}>>
    /\ ThrottleRecord(throttleTimers, "b") # {}

\* C26: removeAllOperations(e) leaves e without chain, delays, pending
\* debounced emission and throttle record, and leaves all listeners and the
\* chains and timing state of the other events as they were; without argument
\* it does so for every event; and an emit on an event without chain and
\* delays calls the per-name and the wildcard listeners at once with the
\* payload as given.
C26_RemoveAllOperationsFrame ==
    [][/\ lastOp'.op = "removeAllOperations"
          => LET e == lastOp'.event
             IN  /\ \A f \in Events :
                       IF e = NoEvent \/ f = e
                       THEN /\ Configured(operationChains', debounceDelays',
                                         throttleDelays', f) = Unconfigured
                            /\ PendingDebounce(debounceTimers', timers', f)
                                  = NoPendingDebounce
                            /\ ThrottleRecord(throttleTimers', f) = {}
                       ELSE /\ Configured(operationChains', debounceDelays',
                                         throttleDelays', f)
                                  = Configured(operationChains, debounceDelays,
                                               throttleDelays, f)
                            /\ PendingDebounce(debounceTimers', timers', f)
                                  = PendingDebounce(debounceTimers, timers, f)
                            /\ ThrottleRecord(throttleTimers', f)
                                  = ThrottleRecord(throttleTimers, f)
                 /\ UNCHANGED <<listeners, wildcardListeners>>
       /\ (/\ lastOp'.op = "emit"
           /\ Configured(operationChains, debounceDelays, throttleDelays,
                         lastOp'.event) = Unconfigured)
          => /\ calls' = ExpectedCalls(Registered(listeners, lastOp'.event),
                                       wildcardListeners, lastOp'.event,
                                       lastOp'.data)
             /\ ret' = (calls' # <<>>)
             /\ timers' = timers]_vars

\* C26's case: after removeAllOperations("a"), "a" has no chain, no delay and
\* no throttle record and no timer is pending, while the listener of "a" and
\* the wildcard listener are registered and "b" keeps its throttle delay and
\* its throttle record.
C26_Witness ==
    /\ lastOp.op = "removeAllOperations" /\ lastOp.event = "a"
    /\ Len(Registered(listeners, "a")) = 1 /\ Len(wildcardListeners) = 1
    /\ Configured(operationChains, debounceDelays, throttleDelays, "a") = Unconfigured
    /\ ThrottleRecord(throttleTimers, "a") = {}
    /\ timers = {}
    /\ Configured(operationChains, debounceDelays, throttleDelays, "b")
          = <<{}, {}, {ThrottleDelay}>>
    /\ ThrottleRecord(throttleTimers, "b") # {}

\* ---------------------------------------------------------------- names properties

\* The part of the emitter that eventNames and listenerCount read.
Registry(ls, ws) == [listeners |-> ls, wildcardListeners |-> ws]

\* C27: eventNames() lists exactly the events whose listener count is not
\* 0, never the wildcard name; the count of a target goes up by one with each
\* on that registers, down by one with each off that returns true, to zero
\* with removeAllListeners, and down by the listeners of the signal with an
\* abort, and is changed by nothing else.
C27_EventNamesAreSubscribedEvents ==
    [][LET before == Registry(listeners, wildcardListeners)
           after == Registry(listeners', wildcardListeners')
           e == lastOp'.event
       IN  /\ EventNames(after) = {f \in Events : ListenerCount(after, f) > 0}
           /\ \A f \in Targets :
                 ListenerCount(after, f) =
                    CASE lastOp'.op = "on" /\ f = e
                            /\ (lastOp'.sig = NoSignal \/ ~signals[lastOp'.sig].aborted)
                           -> ListenerCount(before, f) + 1
                      [] lastOp'.op = "off" /\ f = e /\ ret'
                           -> ListenerCount(before, f) - 1
                      [] lastOp'.op = "removeAllListeners" /\ (e = NoEvent \/ f = e)
                           -> 0
                      [] lastOp'.op = "abort" /\ ~signals[lastOp'.sig].aborted
                           -> ListenerCount(before, f)
                                - Cardinality(SignalledIds(lastOp'.sig, f)
                                    \cap {Subscribed(listeners, wildcardListeners, f)[i].id :
                                            i \in 1..ListenerCount(before, f)})
                      [] OTHER -> ListenerCount(before, f)]_vars

\* C27's case: "a" lost its only listener by off, "b" lost its only
\* listener by the abort of its signal, a wildcard listener is registered, and
\* eventNames() is empty.
C27_Witness ==
    /\ lastOp.op = "abort" /\ idCounter = 3
    /\ IdsOf(wildcardListeners) = <<1>>
    /\ DOMAIN listeners = {"a", "b"}
    /\ signals[1].handlers = <<AbortOff("b", 2)>>
    /\ EventNames(Registry(listeners, wildcardListeners)) = {}
    /\ ListenerCount(Registry(listeners, wildcardListeners), Wildcard) = 1

\* ---------------------------------------------------------------- builder properties

\* C28: a call of transform, filter or tap on a builder appends its step to
\* the chain that is bound to the event of the builder at the time of the call
\* (no step when none is bound), whatever chain the builder was created with,
\* and binds the result.
C28_BuilderAppendsToBoundChain ==
    [][lastOp'.op = "builder"
        => /\ DOMAIN operationChains' = DOMAIN operationChains \cup {lastOp'.event}
           /\ operationChains'[lastOp'.event] =
                 Append(Registered(operationChains, lastOp'.event), lastOp'.key)]_vars

\* ---------------------------------------------------------------- evaluation count properties

\* The number of times the step at position i ran in one logged evaluation.
RunsOf(entry, i) == Cardinality({n \in 1..Len(entry.log) : entry.log[n].pos = i})

\* C29: an emit on an event with a bound chain whose per-name evaluation is
\* not suppressed evaluates the chain once if the event has per-name listeners,
\* and once more for each wildcard listener; and when the payload passes the
\* chain, every step of the chain, so every tap, runs once in each of these
\* evaluations.
C29_ChainEvaluatedPerWildcardListener ==
    [][(lastOp'.op = "emit" /\ lastOp'.event \in DOMAIN operationChains)
        => LET regs == Registered(listeners, lastOp'.event)
               steps == operationChains[lastOp'.event]
               rejected == Rejected(steps, lastOp'.data)
               expected == (IF regs # <<>> THEN 1 ELSE 0) + Len(wildcardListeners)
           IN  /\ (regs = <<>> \/ ~rejected) => Len(evals') = expected
               /\ ~rejected
                    => \A k \in 1..Len(evals') : \A i \in 1..Len(steps) :
                          RunsOf(evals'[k], i) = 1]_vars

\* C29's case: an emit on an event with one per-name listener, one wildcard
\* listener and a chain of a transform and a tap evaluated the chain twice,
\* and the tap ran in both evaluations.
C29_Witness ==
    /\ lastOp.op = "emit" /\ lastOp.event = "a" /\ ret
    /\ Len(Registered(listeners, "a")) = 1 /\ Len(wildcardListeners) = 1
    /\ Registered(operationChains, "a")
          = <<Step("transform", "inc"), Step("tap", "tap")>>
    /\ Len(evals) = 2
    /\ \A k \in 1..Len(evals) :
          \E n \in 1..Len(evals[k].log) : evals[k].log[n].type = "tap"
    /\ Len(calls) = 2

\* C30: an emit on an event with per-name and wildcard listeners whose
\* per-name evaluation is suppressed still evaluates the chain once for each
\* wildcard listener, calls the wildcard listeners whose evaluation is not
\* suppressed, and returns true when one was called.
C30_SuppressedPerNameStillServesWildcard ==
    [][(/\ lastOp'.op = "emit"
        /\ lastOp'.event \in DOMAIN operationChains
        /\ Registered(listeners, lastOp'.event) # <<>>
        /\ wildcardListeners # <<>>
        /\ Rejected(operationChains[lastOp'.event], lastOp'.data))
        => /\ Len(evals') = 1 + Len(wildcardListeners)
           /\ BareCalls(calls') = <<>>
           /\ \A j \in 1..Len(wildcardListeners) :
                 evals'[WildcardEval(1, j)].result # Undefined
                   => \E c \in 1..Len(calls') :
                         calls'[c] = WildcardCall(wildcardListeners[j],
                                                  lastOp'.event,
                                                  evals'[WildcardEval(1, j)].result)
           /\ ret' = (calls' # <<>>)]_vars

\* ---------------------------------------------------------------- wildcard result properties

\* C31: an emit with no chain on the event returns true whenever a wildcard
\* listener was called in it, also when the event has no per-name listener and
\* the wildcard listeners called raised; and every wildcard listener is
\* called, whichever of them raise.
C31_WildcardCallMakesEmitTrue ==
    [][lastOp'.op = "emit"
        => /\ IdsOf(EnvCalls(calls')) = IdsOf(wildcardListeners)
           /\ EnvCalls(calls') # <<>> => ret']_vars

\* ---------------------------------------------------------------- delivery set properties

\* C32: an emit with no chain on the event calls every per-name listener of
\* the event and every wildcard listener that was registered when the emit
\* was called, in order, whatever the listeners called remove in the meantime.
C32_WildcardListenersFixedAtStart ==
    [][lastOp'.op = "emit"
        => /\ IdsOf(BareCalls(calls')) = IdsOf(Registered(listeners, lastOp'.event))
           /\ IdsOf(EnvCalls(calls')) = IdsOf(wildcardListeners)]_vars

\* C33: an emit with no chain on the event calls only listeners that were
\* registered when the emit was called, whatever the listeners called
\* subscribe in the meantime.
C33_SubscribedDuringDeliveryWaits ==
    [][lastOp'.op = "emit"
        => \A c \in 1..Len(calls') :
              calls'[c].id \in RegisteredIds(listeners, wildcardListeners)]_vars

\* ---------------------------------------------------------------- reconfiguration properties

\* C34: a call of debounce or throttle for an event leaves no debounced
\* emission of the event pending, so that after an emit that delivers at once
\* no older payload of the event is still waiting to be delivered.
C34_ReconfigurationCancelsPending ==
    [][/\ lastOp'.op \in {"debounce", "throttle"}
          => PendingDebounce(debounceTimers', timers', lastOp'.event)
                = NoPendingDebounce
       /\ (lastOp'.op = "emit" /\ calls' # <<>>)
          => PendingDebounce(debounceTimers', timers', lastOp'.event)
                = NoPendingDebounce]_vars

\* ---------------------------------------------------------------- timing removal properties

\* The debounce delay of event f as a set, with its pending emissions.
DebounceOf(dd, dt, ts, f) ==
    <<IF f \in DOMAIN dd THEN {dd[f]} ELSE {}, PendingDebounce(dt, ts, f)>>

\* The throttle delay of event f as a set, with its last-fire record.
ThrottleOf(td, tt, f) ==
    <<IF f \in DOMAIN td THEN {td[f]} ELSE {}, ThrottleRecord(tt, f)>>

\* C35: removeDebounce(e) leaves e without debounce delay and without
\* pending emission, and removeThrottle(e) leaves e without throttle delay and
\* without last-fire record; each leaves the listeners, the chains, the other
\* mechanism of e and both mechanisms of the other events as they were;
\* debounce(ms) and throttle(ms) leave the chains as they were; the only
\* debounced emissions delivered are ones the emitter still holds; and an emit
\* on an event without throttle delay is not dropped: it is scheduled when the
\* event has a debounce delay and delivered at once otherwise.
C35_RemoveTimingFrame ==
    [][LET e == lastOp'.event
           DebounceAfter(f) == DebounceOf(debounceDelays', debounceTimers', timers', f)
           DebounceBefore(f) == DebounceOf(debounceDelays, debounceTimers, timers, f)
           ThrottleAfter(f) == ThrottleOf(throttleDelays', throttleTimers', f)
           ThrottleBefore(f) == ThrottleOf(throttleDelays, throttleTimers, f)
       IN  /\ lastOp'.op = "removeDebounce"
              => /\ DebounceAfter(e) = <<{}, NoPendingDebounce>>
                 /\ \A f \in Events \ {e} : DebounceAfter(f) = DebounceBefore(f)
                 /\ \A f \in Events : ThrottleAfter(f) = ThrottleBefore(f)
                 /\ UNCHANGED <<listeners, wildcardListeners, operationChains>>
           /\ lastOp'.op = "removeThrottle"
              => /\ ThrottleAfter(e) = <<{}, {}>>
                 /\ \A f \in Events \ {e} : ThrottleAfter(f) = ThrottleBefore(f)
                 /\ \A f \in Events : DebounceAfter(f) = DebounceBefore(f)
                 /\ UNCHANGED <<listeners, wildcardListeners, operationChains>>
           /\ lastOp'.op \in {"debounce", "throttle"}
              => UNCHANGED <<listeners, wildcardListeners, operationChains>>
           /\ lastOp'.op = "fire"
              => \E t \in timers :
                    /\ timers' = timers \ {t}
                    /\ PendingDebounce(debounceTimers, timers, t.event) = <<{t}, {t}>>
           /\ (lastOp'.op = "emit" /\ ThrottleBefore(e) = <<{}, {}>>)
              => IF GetNum(debounceDelays, e) # 0
                 THEN /\ ret'
                      /\ PendingDebounce(debounceTimers', timers', e)
                           = <<{DebounceTimer(e, lastOp'.data,
                                              now + debounceDelays[e])},
                               {DebounceTimer(e, lastOp'.data,
                                              now + debounceDelays[e])}>>
                 ELSE calls' = ExpectedCalls(
                                   Registered(listeners, e), wildcardListeners, e,
                                   Final(Registered(operationChains, e),
                                         lastOp'.data))]_vars

\* C35's case: after removeThrottle("a") the event has no throttle delay and
\* no last-fire record, while its debounced emission is still pending, its
\* chain and its listener are as they were, and "b" keeps its throttle delay
\* and record.
C35_Witness ==
    /\ lastOp.op = "removeThrottle" /\ lastOp.event = "a"
    /\ ThrottleOf(throttleDelays, throttleTimers, "a") = <<{}, {}>>
    /\ DebounceOf(debounceDelays, debounceTimers, timers, "a")
          = <<{DebounceDelay}, <<{DebounceTimer("a", 3, DebounceDelay)},
                                 {DebounceTimer("a", 3, DebounceDelay)}>>>>
    /\ Registered(operationChains, "a") = <<Step("transform", "inc")>>
    /\ Len(Registered(listeners, "a")) = 1 /\ Len(wildcardListeners) = 1
    /\ ThrottleOf(throttleDelays, throttleTimers, "b") = <<{ThrottleDelay}, {0}>>

\* ---------------------------------------------------------------- rebinding properties

\* C36: every evaluation of one emission, the per-name one and each wildcard
\* one, runs exactly the steps that were bound to the event when the emission
\* started, whatever its steps and listeners append or remove meanwhile, and
\* every listener gets the result of those steps; and no step of the program
\* changes the chain a builder holds, except that a fluent call replaces the
\* builder called by the one it returns.
C36_DeliveryEvaluatesChainBoundAtStart ==
    [][/\ lastOp'.op = "emit"
          => LET e == lastOp'.event
                 d == lastOp'.data
                 steps == Registered(operationChains, e)
                 regs == Registered(listeners, e)
             IN  /\ Len(evals') = IF e \in DOMAIN operationChains
                                  THEN Len(wildcardListeners)
                                         + (IF regs # <<>> THEN 1 ELSE 0)
                                  ELSE 0
                 /\ \A k \in 1..Len(evals') :
                       /\ Len(evals'[k].log) = Len(steps)
                       /\ \A j \in 1..Len(steps) :
                             evals'[k].log[j]
                                = StepRun(j, steps[j], RunningAt(steps, d, j))
                       /\ evals'[k].result = Final(steps, d)
                 /\ calls' = ExpectedCalls(regs, wildcardListeners, e,
                                           Final(steps, d))
       /\ \A b \in 1..Len(builders) :
             /\ b <= Len(builders')
             /\ builders'[b] # builders[b]
                  => (lastOp'.op = "builder" /\ lastOp'.id = b)]_vars

\* C36's case: the chain of "a" was one tap that appends a transform; the
\* per-name evaluation and the wildcard evaluation each ran that tap alone and
\* both listeners got the payload as emitted, while the chain now bound has
\* after the tap the three transforms that the two evaluations and the
\* per-name listener appended, and the builder obtained before holds the chain
\* as it was.
C36_Witness ==
    /\ lastOp.op = "emit"
    /\ Len(evals) = 2
    /\ evals[1].log = <<StepRun(1, Step("tap", "grow"), 1)>>
    /\ evals[2].log = <<StepRun(1, Step("tap", "grow"), 1)>>
    /\ calls = <<[id |-> 0, env |-> FALSE, type |-> "", data |-> 1],
                 [id |-> 1, env |-> TRUE, type |-> "a", data |-> 1]>>
    /\ Registered(listeners, "a") = <<[id |-> 0, handler |-> Grow]>>
    /\ Registered(operationChains, "a")
          = <<Step("tap", "grow"), Step("transform", "inc"),
              Step("transform", "inc"), Step("transform", "inc")>>
    /\ builders = <<Builder("a", <<Step("tap", "grow")>>)>>

\* ---------------------------------------------------------------- cap properties

\* listenerCount(e) of a registry: the wildcard array for '*', the Set of e
\* otherwise.
CountOf(ls, ws, e) == IF e = Wildcard THEN Len(ws) ELSE Len(Registered(ls, e))

\* C37: an on(e, handler) whose signal, if any, is not already aborted
\* registers the listener under the id it returns, after the listeners e
\* already has, and listenerCount(e) grows by exactly 1, whatever the cap and
\* however many listeners e has; it does not raise.
C37_OnNeverRefuses ==
    [][(/\ lastOp'.op = "on"
        /\ lastOp'.sig # NoSignal => ~signals[lastOp'.sig].aborted)
          => LET e == lastOp'.event
                 l == [id |-> lastOp'.id, handler |-> lastOp'.key.handler]
             IN  /\ ~raised'
                 /\ CountOf(listeners', wildcardListeners', e)
                       = CountOf(listeners, wildcardListeners, e) + 1
                 /\ Subscribed(listeners', wildcardListeners', e)
                       = Append(Subscribed(listeners, wildcardListeners, e), l)]_vars

\* C37's case: with cap 1 and a signal that is not aborted, the third on of
\* "a" gave a warning and "a" has three listeners.
C37_Witness ==
    /\ lastOp.op = "on" /\ lastOp.event = "a" /\ lastOp.sig # NoSignal
    /\ ~signals[lastOp.sig].aborted
    /\ maxListeners = 1 /\ warned
    /\ CountOf(listeners, wildcardListeners, "a") = 3

\* ---------------------------------------------------------------- undefined payload properties

\* The emission of the step evaluated the payload for its listeners, and the
\* processed payload is undefined: what execute returned when a chain is
\* bound to the event, the payload as given otherwise.
ProcessedUndefined ==
    /\ lastOp'.op \in {"emit", "emitToListener"}
    /\ IF lastOp'.event \in DOMAIN operationChains
       THEN evals' # <<>> /\ evals'[1].result = Undefined
       ELSE /\ lastOp'.data = Undefined
            /\ IF lastOp'.op = "emit"
               THEN Registered(listeners, lastOp'.event) # <<>>
                      \/ wildcardListeners # <<>>
               ELSE \E i \in 1..Len(Registered(listeners, lastOp'.event)) :
                       Registered(listeners, lastOp'.event)[i].id = lastOp'.id

\* The last step the first evaluation ran is a filter that returned false.
FilterRejected ==
    /\ evals' # <<>> /\ evals'[1].log # <<>>
    /\ LET last == evals'[1].log[Len(evals'[1].log)]
       IN  /\ last.type = "filter"
           /\ ~StepHandler(last.handler, last.value).keep

\* C38: an emit or emitToListener whose processed payload is undefined calls
\* no listener and returns false, whether a filter rejected the payload, a
\* transform returned undefined, or the payload was undefined with no chain
\* bound; and whenever a filter rejects, the processed payload is undefined.
C38_UndefinedIsSuppressed ==
    [][/\ ProcessedUndefined => (calls' = <<>> /\ ret' = FALSE /\ ~raised')
       /\ (lastOp'.op \in {"emit", "emitToListener"} /\ FilterRejected)
             => ProcessedUndefined]_vars

\* C38's case: "a" has a per-name and a wildcard listener and a transform
\* without return value; the emit of 3 ran the transform once, called nobody
\* and returned false.
C38_Witness ==
    /\ lastOp.op = "emit" /\ lastOp.data = 3
    /\ Registered(operationChains, "a") = <<Step("transform", "void")>>
    /\ Len(Registered(listeners, "a")) = 1 /\ Len(wildcardListeners) = 1
    /\ evals = <<[log |-> <<StepRun(1, Step("transform", "void"), 3)>>,
                  result |-> Undefined]>>
    /\ calls = <<>> /\ ret = FALSE

\* ---------------------------------------------------------------- deferred delivery properties

\* C39: an emit on an event with a debounce delay returns true and calls
\* nobody, with or without listeners; when its timer fires, the payload goes
\* through the chain bound at that moment to the per-name and wildcard
\* listeners registered at that moment, and the event has no pending timer
\* afterwards.
C39_DebouncedDeliveryUsesStateAtFire ==
    [][LET e == lastOp'.event
           d == lastOp'.data
       IN  /\ (lastOp'.op = "emit" /\ Truthy(GetNum(debounceDelays, e)))
                 => (/\ ret' /\ calls' = <<>> /\ evals' = <<>>
                     /\ UNCHANGED <<listeners, wildcardListeners, operationChains>>)
           /\ lastOp'.op = "fire"
                 => /\ calls' = ExpectedCalls(
                                    Registered(listeners, e), wildcardListeners, e,
                                    Final(Registered(operationChains, e), d))
                    /\ \A k \in 1..Len(evals') :
                          Len(evals'[k].log) = Len(Registered(operationChains, e))
                    /\ PendingDebounce(debounceTimers', timers', e)
                          = NoPendingDebounce]_vars

\* C39's case: the timer of an emit of 3 fired when the only listener of "a"
\* was the second one subscribed and a transform was bound: that listener got
\* 4, and nothing is pending.
C39_Witness ==
    /\ lastOp.op = "fire" /\ lastOp.data = 3
    /\ idCounter = 2
    /\ IdsOf(Registered(listeners, "a")) = <<1>> /\ wildcardListeners = <<>>
    /\ Registered(operationChains, "a") = <<Step("transform", "inc")>>
    /\ calls = <<[id |-> 1, env |-> FALSE, type |-> "", data |-> 4]>>
    /\ PendingDebounce(debounceTimers, timers, "a") = NoPendingDebounce

\* ---------------------------------------------------------------- stale builder properties

\* C40: when a step is attached through a builder right after
\* removeAllOperations(e), whenever that builder was obtained, the chain then
\* bound to e holds that step alone: no step attached before the removal is
\* bound again, so none is run by a later emission.
C40_RemovedStepsStayRemoved ==
    [][(/\ lastOp.op = "removeAllOperations"
        /\ lastOp'.op = "builder")
          => Registered(operationChains', lastOp'.event) = <<lastOp'.key>>]_vars

====
